---- MODULE Spec2Model ----
(***************************************************************************)
(* A model of the user-space TCP connection handler of                     *)
(* pkg/vif/tcp/handler.go.                                                 *)
(*                                                                         *)
(* The handler's fields are the record h.  Every goroutine of the handler  *)
(* (the dispatcher calling HandlePacket, the packet processor started by   *)
(* Start, callers of Stop, the TIME-WAIT timer callback, the sender in     *)
(* processPayload) has a stack of labels pc[g]: the first label is the     *)
(* code it runs next, the rest is where it returns to.  One step is one    *)
(* critical section of the code: from a Lock to the next Unlock, together  *)
(* with the TUN write that tunWriteUnlocked makes right after unlocking.   *)
(* Code that runs without the mutex (hardStop, the channel operations)     *)
(* is split at its reads and writes of shared fields.                      *)
(***************************************************************************)
EXTENDS Integers, Sequences, FiniteSets, TLC

----------------------------------------------------------------------------
(* Program constants *)

\* Sequence numbers are uint32 in the code.  TLC's integers are 32-bit signed,
\* so the model wraps at 2^30; every value the model uses is far below it.
SeqMod == 1073741824
myWindowScale == 8
maxReceiveWindow == 2 ^ (myWindowScale + 12)
maxResends == 7
initialResendDelayMs == 200

(* Bounds of the model *)
ChanCap == 2        \* capacity of fromTun and toMgrCh (ioChannelSize, scaled down)
MaxTunFail == 1     \* how many TUN writes may fail
MaxStops == 1       \* how many times the pool calls Stop
MaxFaults == 2      \* how many of: a pool Stop, a cancelled context, a failed TUN write, a failed stream factory
SegLen == 100       \* payload length of a peer data segment
MaxPackets == 4     \* how many packets the dispatcher hands to HandlePacket
MaxData == 1        \* how many of them carry payload
PeerWin == 512      \* the window field of the peer's packets
PeerScale == 7      \* the window scale option of the peer's SYN
PeerMSS == 1460     \* the MSS option of the peer's SYN

ISS == 300          \* the value RandomSequence returns
IRS == 1000         \* the peer's initial sequence number

NoPkt == [none |-> TRUE]
Free == "free"
\* The locals of a goroutine: pkt, at, psa for a packet being handled, seen for
\* hardStop, n to zwp for processPayload, rs, snap and garb for the list of
\* resend
NoLoc ==
  [ pkt |-> NoPkt, at |-> "none", psa |-> 0, seen |-> "none",
    n |-> 0, start |-> 0, rq |-> 0, woke |-> "none", proceed |-> FALSE,
    over |-> FALSE, zwp |-> FALSE,
    rs |-> << >>, snap |-> << >>, garb |-> {} ]

stateListen == "LISTEN"
stateSynReceived == "SYN-RECEIVED"
stateSynSent == "SYN-SENT"
stateEstablished == "ESTABLISHED"
stateFinWait1 == "FIN-WAIT-1"
stateFinWait2 == "FIN-WAIT-2"
stateCloseWait == "CLOSE-WAIT"
stateLastAck == "LAST-ACK"
stateClosing == "CLOSING"
stateTimeWait == "TIME-WAIT"
stateClosed == "CLOSED"

States ==
  { stateListen, stateSynReceived, stateSynSent, stateEstablished, stateFinWait1,
    stateFinWait2, stateCloseWait, stateLastAck, stateClosing, stateTimeWait,
    stateClosed }

U32(x) == x % SeqMod

----------------------------------------------------------------------------
(* The handler, as NewHandler leaves it *)

NewHandler ==
  [ state              |-> stateListen,
    remove             |-> TRUE,          \* the pool's callback; FALSE is nil
    sequence           |-> 0,
    sequenceAcked      |-> 0,
    lastKnown          |-> 0,
    finalSeq           |-> 0,
    myWindowSize       |-> maxReceiveWindow,
    peerSequenceToAck  |-> 0,
    peerSequenceAcked  |-> 0,
    peerWindow         |-> 0,
    peerWindowScale    |-> 0,
    peerMaxSegmentSize |-> 0,
    peerPermitsSACK    |-> FALSE,
    ackWaitQueue       |-> << >>,         \* head first: descending sequence
    oooQueue           |-> << >>,         \* head first: ascending sequence
    awaitWinSize       |-> NoPkt,
    stopTimer          |-> "nil",         \* nil | armed | fired
    stream             |-> "nil",         \* nil | open | failed
    toMgrCh            |-> << >>,
    toMgrClosed        |-> FALSE,
    toMgrMsgCh         |-> 0,
    \* history: the state before the last change of state, and what made it
    from               |-> "none",
    by                 |-> "none" ]

receiveWindow(hh) == hh.myWindowSize

\* (mutant) setState without its validation
setStateAllowsAll(from, s) == TRUE

\* setState: the transition is made only if the switch allows it.  The switch
\* has no case for TIME-WAIT, so every transition out of TIME-WAIT is made.
setStateAllows(from, s) ==
  CASE from = stateClosed      -> s \in {stateListen, stateSynSent}
    [] from = stateListen      -> s \in {stateSynReceived, stateSynSent, stateListen}
    [] from = stateSynReceived -> s \in {stateEstablished, stateFinWait1, stateClosed}
    [] from = stateSynSent     -> s \in {stateSynReceived, stateEstablished, stateClosed}
    [] from = stateEstablished -> s \in {stateCloseWait, stateFinWait1}
    [] from = stateFinWait1    -> s \in {stateClosing, stateFinWait2, stateTimeWait}
    [] from = stateFinWait2    -> s = stateTimeWait
    [] from = stateClosing     -> s = stateTimeWait
    [] from = stateCloseWait   -> s = stateLastAck
    [] from = stateLastAck     -> s = stateClosed
    [] OTHER                   -> TRUE

\* A write of the state field, with its history
writeState(hh, s, by) ==
  IF s = hh.state THEN hh ELSE [ hh EXCEPT !.state = s, !.from = hh.state, !.by = by ]

setState(hh, s) ==
  IF setStateAllows(hh.state, s) THEN writeState(hh, s, "setState") ELSE hh

----------------------------------------------------------------------------
VARIABLES
  h,            \* the handler's fields
  mu,           \* the handler mutex: Free, or the goroutine that holds it
  cancelled,    \* the handler's context is done
  fromTun,      \* the inbound channel
  pc,           \* per goroutine: the labels it has still to run
  loc,          \* per goroutine: the packet it works on, and what it saw when it began
  wire,         \* the packet handed to toTun.Write in this step, or NoPkt
  removeCount,  \* how often the pool's remove callback has run
  toMgrLog,     \* every payload handed to toMgrCh so far, as <<seq, len>>
  now,          \* the clock (time.Now), in units of 100 ms
  env           \* what the environment has done so far (its budgets)

vars == << h, mu, cancelled, fromTun, pc, loc, wire, removeCount, toMgrLog, now, env >>

Procs == { "disp", "proc", "pool", "timer", "reader", "resend" }

----------------------------------------------------------------------------
(* Packets *)

\* An inbound packet.  mss, ws and sackOK are the options of a SYN, sack the
\* (leftEdge, rightEdge) pairs of a SACK option.
InPkt(seq, ack, flags, len, win) ==
  [ seq |-> seq, ack |-> ack, flags |-> flags, len |-> len, win |-> win,
    mss |-> 0, ws |-> 0, sackOK |-> FALSE, sack |-> << >> ]

NewReplyPacket(flags, len) ==
  [ seq |-> 0, ack |-> 0, flags |-> flags, len |-> len, win |-> 0, sack |-> << >> ]

\* Packet.Reset(): the RST that answers the initial packet
ResetPacket(p) ==
  [ seq |-> p.ack, ack |-> U32(p.seq + p.len), flags |-> {"RST", "ACK"}, len |-> 0,
    win |-> 0, sack |-> << >> ]

OnlyACK(p) == p.flags = {"ACK"}

\* newResponse: the reply carries a SACK option if the OOO queue is not empty:
\* one (leftEdge, rightEdge) pair per run of contiguous queued segments
RECURSIVE sackRuns(_, _)
sackRuns(q, i) ==
  IF i > Len(q) THEN << >>
  ELSE LET RECURSIVE runEnd(_, _)
           runEnd(j, right) ==
             LET r == U32(right + q[j].len) IN
             IF j = Len(q) \/ q[j + 1].sequence # r THEN << j, r >>
             ELSE runEnd(j + 1, r)
           e == runEnd(i, q[i].sequence)
           RECURSIVE newest(_, _)
           newest(j, ts) ==
             IF j > e[1] THEN ts
             ELSE newest(j + 1, IF q[j].cTime > ts THEN q[j].cTime ELSE ts)
       IN << [left |-> q[i].sequence, right |-> e[2], ts |-> newest(i, 0)] >>
          \o sackRuns(q, e[1] + 1)

maxEdges == 8

newResponse(hh, payloadLen) ==
  LET runs == sackRuns(hh.oooQueue, 1)
      \* index of the run with the most recently received segment (first on ties)
      later(i) == \E j \in 1..Len(runs) : runs[j].ts > runs[i].ts
      mre == IF runs = << >> THEN 0
             ELSE CHOOSE i \in 1..Len(runs) :
                    /\ runs[i].ts > 0 => ~later(i)
                    /\ runs[i].ts > 0 => \A j \in 1..(i - 1) : runs[j].ts < runs[i].ts
                    /\ runs[i].ts = 0 => i = 1 /\ \A j \in 1..Len(runs) : runs[j].ts = 0
      swapped == [i \in 1..Len(runs) |->
                    IF mre > 1 /\ i = 1 THEN runs[mre]
                    ELSE IF mre > 1 /\ i = mre THEN runs[1] ELSE runs[i]]
      ne == IF Len(runs) * 2 > maxEdges THEN maxEdges \div 2 ELSE Len(runs)
  IN [ NewReplyPacket({}, payloadLen) EXCEPT
         !.sack = [i \in 1..ne |-> << swapped[i].left, swapped[i].right >>] ]

----------------------------------------------------------------------------
(* Sending *)

\* What a critical section leaves behind: the handler, the packet to write to
\* TUN once the mutex is released (or NoPkt), the labels still to run after
\* it, and whether it panicked or has to wait.
Seg(hh, out, k) == [ h |-> hh, out |-> out, k |-> k, fault |-> "none" ]
Fault(hh, f) == [ h |-> hh, out |-> NoPkt, k |-> << >>, fault |-> f ]

\* prepareToSend: stamp the packet, advance sequence, queue it for the peer's ack
stamp(hh, pkt) ==
  [ pkt EXCEPT !.seq = hh.sequence, !.ack = hh.peerSequenceToAck,
               !.win = receiveWindow(hh) \div (2 ^ myWindowScale) ]

\* prepareToSend if it linked the new record behind the last one
prepareToSendAtTail(hh, pkt, seqAdd) ==
  LET h1 == IF seqAdd > 0
            THEN [ hh EXCEPT
                     !.sequence = U32(hh.sequence + seqAdd),
                     !.ackWaitQueue =
                        hh.ackWaitQueue
                        \o << [ sequence |-> U32(hh.sequence + seqAdd), retries |-> 0,
                                cTime |-> now, packet |-> stamp(hh, pkt) ] >> ]
            ELSE hh
  IN [ h1 EXCEPT !.peerSequenceAcked = hh.peerSequenceToAck ]

prepareToSend(hh, pkt, seqAdd) ==
  LET h1 == IF seqAdd > 0
            THEN [ hh EXCEPT
                     !.sequence = U32(hh.sequence + seqAdd),
                     !.ackWaitQueue =
                        << [ sequence |-> U32(hh.sequence + seqAdd), retries |-> 0,
                             cTime |-> now, packet |-> stamp(hh, pkt) ] >>
                        \o hh.ackWaitQueue ]
            ELSE hh
  IN [ h1 EXCEPT !.peerSequenceAcked = hh.peerSequenceToAck ]

\* sendToTun: prepareToSend, then tunWriteUnlocked
sendToTun(hh, pkt, seqAdd, k) == Seg(prepareToSend(hh, pkt, seqAdd), stamp(hh, pkt), k)

sendACK(hh, k) ==
  sendToTun(hh, [ newResponse(hh, 0) EXCEPT !.flags = {"ACK"} ], 0, k)

sendFIN(hh, withAck, k) ==
  sendToTun([ hh EXCEPT !.finalSeq = U32(hh.sequence + 1) ],
            NewReplyPacket({"PSH", "FIN"} \cup (IF withAck THEN {"ACK"} ELSE {}), 0),
            1, k)

sendRST(hh, k) ==
  sendToTun([ hh EXCEPT !.finalSeq = U32(hh.sequence + 1) ],
            NewReplyPacket({"RST"}, 0), 1, k)

sendSyn(hh, k) == sendToTun(hh, NewReplyPacket({"SYN", "ACK"}, 0), 1, k)

setStopTimer(hh) == [ hh EXCEPT !.stopTimer = "armed" ]

\* (mutant) stopLocked without its case for CLOSE-WAIT, which then takes the
\* default: RST and hardStop
stopLockedNoCloseWait(hh, k) ==
  CASE hh.state \in {stateLastAck, stateTimeWait, stateClosed} ->
         Seg(hh, NoPkt, << "hardStop" >> \o k)
    [] hh.state \in {stateEstablished, stateSynReceived} ->
         sendFIN(setState(hh, stateFinWait1), TRUE, k)
    [] OTHER ->
         sendRST(hh, << "hardStop" >> \o k)

\* stopLocked.  "hardStop" in the labels stands for Unlock, hardStop, Lock.
stopLocked(hh, k) ==
  CASE hh.state \in {stateLastAck, stateTimeWait, stateClosed} ->
         Seg(hh, NoPkt, << "hardStop" >> \o k)
    [] hh.state = stateCloseWait ->
         sendFIN(setState(hh, stateLastAck), TRUE, k)
    [] hh.state \in {stateEstablished, stateSynReceived} ->
         sendFIN(setState(hh, stateFinWait1), TRUE, k)
    [] OTHER ->
         sendRST(hh, << "hardStop" >> \o k)

----------------------------------------------------------------------------
(* Receiving *)

\* sendToMgr: a send on toMgrCh that also waits for ctx.Done.  ok says which
\* of the two the select took.  A send on the closed channel panics; a send
\* on a full channel waits.
sendToMgr(hh, el, ok) ==
  IF hh.toMgrClosed THEN [ h |-> hh, ok |-> FALSE, fault |-> "panic" ]
  ELSE IF ~ok THEN [ h |-> hh, ok |-> FALSE, fault |-> "none" ]
  ELSE IF Len(hh.toMgrCh) >= ChanCap THEN [ h |-> hh, ok |-> FALSE, fault |-> "wait" ]
  ELSE [ h |-> [ hh EXCEPT !.toMgrCh = Append(@, << el.sequence, el.len >>) ],
         ok |-> TRUE, fault |-> "none" ]

\* processOutOfOrderPackets: hand over the queued segments that continue at
\* seq; what sendToMgr returns is not looked at
RECURSIVE processOutOfOrderPackets(_, _, _)
processOutOfOrderPackets(hh, seq, oks) ==
  IF hh.oooQueue = << >> \/ Head(hh.oooQueue).sequence # seq
  THEN [ h |-> [ hh EXCEPT !.lastKnown = seq, !.peerSequenceToAck = seq ],
         fault |-> "none" ]
  ELSE LET el == Head(hh.oooQueue)
           r  == sendToMgr([ hh EXCEPT !.oooQueue = Tail(@) ], el, Head(oks))
       IN IF r.fault # "none" THEN [ h |-> r.h, fault |-> r.fault ]
          ELSE processOutOfOrderPackets(r.h, U32(el.sequence + el.len), Tail(oks))

\* addOutOfOrderPacket without its search: the segment goes to the head
addOutOfOrderPacketAtHead(hh, pkt) ==
  [ hh EXCEPT !.oooQueue = << [ sequence |-> pkt.seq, cTime |-> now, len |-> pkt.len ] >> \o @ ]

\* addOutOfOrderPacket: insert in ascending order, drop a known sequence
addOutOfOrderPacket(hh, pkt) ==
  LET q == hh.oooQueue
      el == [ sequence |-> pkt.seq, cTime |-> now, len |-> pkt.len ]
  IN IF \E i \in 1..Len(q) :
          q[i].sequence = pkt.seq /\ \A j \in 1..(i - 1) : q[j].sequence < pkt.seq
     THEN hh
     ELSE LET m == IF \E i \in 1..Len(q) : q[i].sequence > pkt.seq
                   THEN (CHOOSE i \in 1..Len(q) :
                           q[i].sequence > pkt.seq
                           /\ \A j \in 1..(i - 1) : q[j].sequence <= pkt.seq) - 1
                   ELSE Len(q)
          IN [ hh EXCEPT !.oooQueue = SubSeq(q, 1, m) \o << el >> \o SubSeq(q, m + 1, Len(q)) ]

handleSequenceEQ(hh, pkt, oks) ==
  LET state == hh.state
      sq == pkt.seq
  IN CASE pkt.len > 0 ->
            LET r == sendToMgr(hh, [ sequence |-> sq, len |-> pkt.len ], Head(oks)) IN
            IF r.fault # "none" THEN Fault(r.h, r.fault)
            ELSE IF ~r.ok THEN Seg(hh, NoPkt, << >>)
            ELSE LET d == processOutOfOrderPackets(r.h, U32(sq + pkt.len), Tail(oks)) IN
                 IF d.fault # "none" THEN Fault(d.h, d.fault)
                 ELSE sendACK(d.h, << "lastKnown" >>)
       [] pkt.len = 0 /\ "FIN" \in pkt.flags ->
            LET h1 == [ hh EXCEPT !.peerSequenceToAck = U32(sq + 1) ] IN
            CASE state = stateEstablished ->
                   sendACK([ setState(h1, stateCloseWait) EXCEPT !.toMgrClosed = TRUE ], << >>)
              [] state = stateFinWait1 -> sendACK(h1, << "finWait1" >>)
              [] state = stateFinWait2 ->
                   stopLocked(setState(setStopTimer(h1), stateTimeWait), << "sendACK" >>)
              [] OTHER -> Seg(h1, NoPkt, << >>)
       [] OTHER ->
            CASE state = stateSynSent ->
                   IF "SYN" \in pkt.flags THEN sendACK(hh, << "established" >>)
                   ELSE Seg(hh, NoPkt, << >>)
              [] state = stateSynReceived -> Seg(setState(hh, stateEstablished), NoPkt, << >>)
              [] state = stateLastAck ->
                   IF pkt.ack = hh.finalSeq THEN stopLocked(setState(hh, stateClosed), << >>)
                   ELSE Seg(hh, NoPkt, << >>)
              [] state = stateClosing ->
                   IF pkt.ack = hh.finalSeq
                   THEN stopLocked(setState(setStopTimer(hh), stateTimeWait), << >>)
                   ELSE Seg(hh, NoPkt, << >>)
              [] state = stateFinWait1 ->
                   IF pkt.ack = hh.finalSeq
                   THEN Seg(setState(setStopTimer(hh), stateFinWait2), NoPkt, << >>)
                   ELSE Seg(hh, NoPkt, << >>)
              [] OTHER -> Seg(hh, NoPkt, << >>)

handleSequenceGT(hh, pkt) ==
  IF pkt.seq <= hh.lastKnown
  THEN IF pkt.len > 0 /\ U32(pkt.seq + pkt.len) > hh.lastKnown
       THEN Seg([ hh EXCEPT !.lastKnown = U32(pkt.seq + pkt.len) ], NoPkt, << >>)
       ELSE Seg(hh, NoPkt, << >>)
  ELSE IF pkt.len > 0
       THEN sendACK(IF hh.peerPermitsSACK THEN addOutOfOrderPacket(hh, pkt) ELSE hh, << >>)
       ELSE Seg(hh, NoPkt, << >>)

toMgrMsgChSize == 50

\* handleSequenceLT if it acknowledged an old segment by its own end
handleSequenceLTAcksOld(hh, pkt) ==
  sendACK([ hh EXCEPT !.peerSequenceToAck = U32(pkt.seq + pkt.len) ], << >>)

handleSequenceLT(hh, pkt) ==
  IF pkt.seq = U32(hh.peerSequenceAcked - 1) /\ pkt.len = 0
  THEN IF hh.state \in {stateCloseWait, stateLastAck}
       THEN IF OnlyACK(pkt) THEN Seg(hh, NoPkt, << >>) ELSE sendACK(hh, << >>)
       ELSE sendACK(IF hh.toMgrMsgCh < toMgrMsgChSize
                    THEN [ hh EXCEPT !.toMgrMsgCh = @ + 1 ] ELSE hh, << >>)
  ELSE Seg(hh, NoPkt, << >>)

handleReceived(hh, pkt, oks) ==
  IF ~("ACK" \in pkt.flags \/ "FIN" \in pkt.flags) THEN Seg(hh, NoPkt, << >>)
  ELSE CASE pkt.seq = hh.peerSequenceAcked -> handleSequenceEQ(hh, pkt, oks)
         [] pkt.seq > hh.peerSequenceAcked -> handleSequenceGT(hh, pkt)
         [] OTHER -> handleSequenceLT(hh, pkt)

\* listen, up to the write of the SYN+ACK (or of the RST for a packet that is no SYN)
listen(hh, syn) ==
  IF "SYN" \notin syn.flags THEN Seg(hh, ResetPacket(syn), << "stopLocked" >>)
  ELSE LET h1 == [ hh EXCEPT !.peerMaxSegmentSize = IF syn.mss > 0 THEN syn.mss ELSE @,
                              !.peerWindowScale = IF syn.ws > 0 THEN syn.ws ELSE @,
                              !.peerPermitsSACK = syn.sackOK \/ @,
                              !.sequence = ISS ]
           h2 == setState(h1, stateSynReceived)
           \* sendSynReply
           h3 == [ h2 EXCEPT !.peerSequenceToAck = U32(syn.seq + 1) ]
       IN sendSyn(h3, << "streamCreator" >>)

\* listen, after the SYN+ACK: open the manager stream
streamCreator(hh, syn, ok) ==
  IF ok THEN Seg([ hh EXCEPT !.stream = "open" ], NoPkt, << >>)
  ELSE Seg([ hh EXCEPT !.stream = "failed" ], ResetPacket(syn), << >>)

----------------------------------------------------------------------------
(* Retransmission *)

TickMs == 100

\* The ack-wait queue is a linked list.  A record is known by its sequence; 0
\* is nil.  The list resend walks holds records that may have left the queue
\* since the list was made: garb keeps those, each with its next pointer.
InQueue(q, id) == \E i \in 1..Len(q) : q[i].sequence = id
PosOf(q, id) == CHOOSE i \in 1..Len(q) : q[i].sequence = id
WithNext(q, i) ==
  [ sequence |-> q[i].sequence, retries |-> q[i].retries, cTime |-> q[i].cTime,
    packet |-> q[i].packet, next |-> IF i < Len(q) THEN q[i + 1].sequence ELSE 0 ]
elOf(q, garb, id) ==
  IF InQueue(q, id) THEN WithNext(q, PosOf(q, id)) ELSE CHOOSE r \in garb : r.sequence = id

\* The records from id on, following next
RECURSIVE chain(_, _, _)
chain(q, garb, id) ==
  IF id = 0 THEN << >>
  ELSE IF InQueue(q, id) THEN SubSeq(q, PosOf(q, id), Len(q))
  ELSE LET r == CHOOSE x \in garb : x.sequence = id
       IN << [ sequence |-> r.sequence, retries |-> r.retries, cTime |-> r.cTime,
               packet |-> r.packet ] >> \o chain(q, garb, r.next)

\* garb after the queue went from qOld to qNew: the records of the list snap
\* that left the queue keep the next pointer they had
Detach(garb, snap, qOld, qNew) ==
  { r \in garb : ~InQueue(qNew, r.sequence) }
  \cup { WithNext(qOld, i) : i \in { j \in 1..Len(qOld) :
                                      /\ \E k \in 1..Len(snap) : snap[k] = qOld[j].sequence
                                      /\ ~InQueue(qNew, qOld[j].sequence) } }

\* prepareToResend
prepareToResend(hh, origPkt) ==
  [ newResponse(hh, origPkt.len) EXCEPT
      !.flags = origPkt.flags, !.seq = origPkt.seq, !.ack = hh.peerSequenceToAck,
      !.win = receiveWindow(hh) \div (2 ^ myWindowScale) ]

\* The deadline of a record, in milliseconds
deadLine(hh, el) ==
  el.cTime * TickMs
  + initialResendDelayMs * (2 ^ el.retries) * (IF hh.peerPermitsSACK THEN 10 ELSE 1)

\* resend, up to its first tunWriteUnlocked or to the end of the list rs
RECURSIVE resend(_, _, _, _, _)
resend(hh, nowv, rs, garb, snap) ==
  IF rs = << >>
  THEN [ h |-> hh, out |-> NoPkt, rs |-> << >>, garb |-> garb ]
  ELSE LET q == hh.ackWaitQueue
           el == elOf(q, garb, Head(rs))
           sq == el.packet.seq
           rest == Tail(rs)
       IN IF sq <= hh.sequenceAcked \/ nowv * TickMs < deadLine(hh, el)
          THEN resend(hh, nowv, rest, garb, snap)
          ELSE IF el.retries < maxResends
          THEN [ h |-> [ hh EXCEPT !.ackWaitQueue =
                           [ i \in 1..Len(q) |-> IF q[i].sequence = el.sequence
                                                 THEN [ q[i] EXCEPT !.retries = @ + 1 ]
                                                 ELSE q[i] ] ],
                 out |-> prepareToResend(hh, el.packet),
                 rs |-> rest,
                 garb |-> { IF r.sequence = el.sequence /\ ~InQueue(q, el.sequence)
                            THEN [ r EXCEPT !.retries = @ + 1 ] ELSE r : r \in garb } ]
          ELSE \* unlink
               LET newQ == IF rest = << >> THEN chain(q, garb, el.next)
                           ELSE IF InQueue(q, Head(rest))
                           THEN SubSeq(q, 1, PosOf(q, Head(rest))) \o chain(q, garb, el.next)
                           ELSE q
                   garb1 == IF rest # << >> /\ ~InQueue(q, Head(rest))
                            THEN { IF r.sequence = Head(rest)
                                   THEN [ r EXCEPT !.next = el.next ] ELSE r : r \in garb }
                            ELSE garb
               IN resend([ hh EXCEPT !.ackWaitQueue = newQ ], nowv, rest,
                         Detach(garb1, snap, q, newQ), snap)

\* processResends: the list is the queue, reversed
Reversed(q) == [ i \in 1..Len(q) |-> q[Len(q) + 1 - i].sequence ]

\* onReceivedSACK: the list of the records in the gaps, each put in front of
\* the list as it is found
RECURSIVE gapList(_, _, _, _, _)
gapList(q, sacks, rightEdge, i, j) ==
  IF i > Len(sacks) THEN << >>
  ELSE IF j > Len(q) THEN gapList(q, sacks, sacks[i][2], i + 1, 1)
  ELSE gapList(q, sacks, rightEdge, i, j + 1)
       \o (IF q[j].sequence >= rightEdge /\ q[j].sequence < sacks[i][1]
           THEN << q[j].sequence >> ELSE << >>)

onReceivedSACK(hh, nowv, sacks) ==
  IF hh.sequenceAcked >= sacks[1][1]
  THEN [ h |-> hh, out |-> NoPkt, rs |-> << >>, garb |-> {} ]
  ELSE LET q == hh.ackWaitQueue
           list == gapList(q, sacks, hh.sequenceAcked, 1, 1)
           q1 == [ j \in 1..Len(q) |->
                     IF \E k \in 1..Len(list) : list[k] = q[j].sequence
                     THEN [ q[j] EXCEPT !.cTime = nowv ] ELSE q[j] ]
       IN resend([ hh EXCEPT !.ackWaitQueue = q1 ], nowv, list, {}, list)

checkSACK(hh, pkt) ==
  IF "ACK" \in pkt.flags /\ pkt.sack # << >>
  THEN onReceivedSACK(hh, now, pkt.sack)
  ELSE [ h |-> hh, out |-> NoPkt, rs |-> << >>, garb |-> {} ]

\* process.  The resend of onReceivedSACK returns without a write (every record
\* of its list has cTime = now, so its deadline lies ahead), and process goes
\* on in the same critical section.
process(hh, pkt, oks) ==
  LET h1 == checkSACK(hh, pkt).h IN
  CASE h1.state \in {stateClosed, stateTimeWait} -> Seg(h1, NoPkt, << >>)
    [] h1.state = stateListen -> listen(h1, pkt)
    [] OTHER -> handleReceived(h1, pkt, oks)

\* The critical sections that follow a tunWriteUnlocked or a hardStop, by label
resume(label, hh, pkt, ok) ==
  CASE label = "stopLocked"    -> stopLocked(hh, << >>)
    [] label = "streamCreator" -> streamCreator(hh, pkt, ok)
    [] label = "lastKnown"     -> Seg([ hh EXCEPT !.lastKnown = hh.peerSequenceAcked ], NoPkt, << >>)
    [] label = "finWait1"      ->
         IF "ACK" \in pkt.flags
         THEN stopLocked(setState(setStopTimer(hh), stateTimeWait), << >>)
         ELSE Seg(setState(hh, stateClosing), NoPkt, << >>)
    [] label = "sendACK"       -> sendACK(hh, << >>)
    [] label = "established"   -> Seg(setState(hh, stateEstablished), NoPkt, << >>)

ResumeLabels == { "stopLocked", "streamCreator", "lastKnown", "finWait1", "sendACK", "established" }

----------------------------------------------------------------------------
(* The ack path of HandlePacket *)

inReceiveWindow(hh, sq) ==
  sq >= hh.peerSequenceAcked /\ sq < U32(hh.peerSequenceAcked + receiveWindow(hh))

\* onReceivedACK: cut the queue at the first record with sequence <= seq
onReceivedACK(hh, seq) ==
  LET q == hh.ackWaitQueue
      keep == IF \E i \in 1..Len(q) : q[i].sequence <= seq
              THEN (CHOOSE i \in 1..Len(q) :
                      q[i].sequence <= seq /\ \A j \in 1..(i - 1) : q[j].sequence > seq) - 1
              ELSE Len(q)
  IN [ hh EXCEPT !.sequenceAcked = seq, !.ackWaitQueue = SubSeq(q, 1, keep) ]

setAckAndPeerWindowSize(hh, pkt) ==
  IF "ACK" \in pkt.flags /\ pkt.ack # 0
  THEN LET h1 == onReceivedACK(hh, pkt.ack)
           sz == pkt.win * (2 ^ hh.peerWindowScale)
           h2 == [ h1 EXCEPT !.peerWindow = sz ]
           ap == hh.awaitWinSize
       IN IF ap # NoPkt /\ sz - U32(hh.sequence - pkt.ack) >= ap.rqSize
          THEN [ h2 EXCEPT !.awaitWinSize = NoPkt ]
          ELSE h2
  ELSE hh

----------------------------------------------------------------------------
(* Steps *)

Top(g) == IF pc[g] = << >> THEN "idle" ELSE Head(pc[g])
Rest(g) == IF pc[g] = << >> THEN << >> ELSE Tail(pc[g])
Done == env.started /\ pc["proc"] = << >>

\* Whether a TUN write may fail now
WriteOutcomes(out) ==
  IF out # NoPkt /\ env.mayFail /\ env.tunFails < MaxTunFail /\ env.faults < MaxFaults
  THEN {TRUE, FALSE} ELSE {TRUE}

\* The outcomes the select in sendToMgr can have, for up to ChanCap + 1 sends
OkSeqs ==
  IF cancelled
  THEN { << a, b >> \o [i \in 1..ChanCap |-> TRUE] : a \in BOOLEAN, b \in BOOLEAN }
  ELSE { [i \in 1..(ChanCap + 2) |-> TRUE] }

\* The end of a critical section of g: Unlock, the TUN write (and the hardStop
\* of tunWrite if it fails), then the labels the section left, then rest.
\* A panic leaves the mutex locked and unwinds to the deferred functions.
Finish(g, r, wok, rest, unwound) ==
  /\ r.fault # "wait"
  /\ h' = r.h
  /\ wire' = r.out
  /\ toMgrLog' = toMgrLog \o SubSeq(r.h.toMgrCh, Len(h.toMgrCh) + 1, Len(r.h.toMgrCh))
  /\ IF r.fault = "panic"
     THEN /\ mu' = g
          /\ pc' = [ pc EXCEPT ![g] = unwound ]
          /\ env' = env
     ELSE /\ mu' = mu
          /\ pc' = [ pc EXCEPT
                       ![g] = (IF wok THEN << >> ELSE << "hardStop" >>) \o r.k \o rest,
                       !["reader"] = IF r.h.stream = "open" /\ h.stream = "nil"
                                     THEN << "readFromMgrLoop" >> ELSE @ ]
          /\ env' = [ env EXCEPT !.tunFails = IF wok THEN @ ELSE @ + 1,
                                  !.faults = @ + (IF wok THEN 0 ELSE 1)
                                               + (IF r.h.stream = "failed" /\ h.stream = "nil"
                                                  THEN 1 ELSE 0) ]

\* Start: the context, the processor goroutine with its deferred Stop, and
\* processResends.  Where time stands still no record ever comes due, and the
\* goroutine of processResends is left out.
Start ==
  /\ ~env.started
  /\ env' = [ env EXCEPT !.started = TRUE ]
  /\ pc' = [ pc EXCEPT !["proc"] = << "processPackets" >>,
                       !["resend"] = IF env.clock THEN << "ticker" >> ELSE << >> ]
  /\ wire' = NoPkt
  /\ UNCHANGED << h, mu, cancelled, fromTun, loc, removeCount, toMgrLog, now >>

\* HandlePacket, up to the send on fromTun.  loc keeps the packet and, as
\* history, the state the handler was in when the call began.
HandlePacket(p, e) ==
  /\ env.started
  /\ pc["disp"] = << >>
  /\ IF "RST" \in p.flags /\ inReceiveWindow(h, p.seq)
     THEN /\ pc' = [ pc EXCEPT !["disp"] = << "hardStop" >> ]
          /\ h' = h
     ELSE /\ mu = Free
          /\ h' = setAckAndPeerWindowSize(h, p)
          /\ pc' = [ pc EXCEPT !["disp"] = << "enqueue" >> ]
  /\ loc' = [ loc EXCEPT !["disp"] = [ @ EXCEPT !.pkt = p, !.at = h.state ],
                        !["resend"].garb = Detach(@, loc["resend"].snap, h.ackWaitQueue,
                                                  h'.ackWaitQueue) ]
  /\ env' = e
  /\ wire' = NoPkt
  /\ UNCHANGED << mu, cancelled, fromTun, removeCount, toMgrLog, now >>

\* HandlePacket's select: the context is done, or the packet goes to fromTun
Enqueue ==
  /\ Top("disp") = "enqueue"
  /\ \E send \in BOOLEAN :
       /\ IF send THEN Len(fromTun) < ChanCap ELSE cancelled
       /\ fromTun' = IF send THEN Append(fromTun, loc["disp"].pkt) ELSE fromTun
  /\ pc' = [ pc EXCEPT !["disp"] = Rest("disp") ]
  /\ loc' = [ loc EXCEPT !["disp"] = NoLoc ]
  /\ wire' = NoPkt
  /\ UNCHANGED << h, mu, cancelled, removeCount, toMgrLog, now, env >>

\* hardStop, its read of h.remove
HardStop(g) ==
  /\ Top(g) = "hardStop"
  /\ pc' = [ pc EXCEPT ![g] = IF h.remove THEN << "hardStopRemove" >> \o Rest(g) ELSE Rest(g) ]
  /\ wire' = NoPkt
  /\ UNCHANGED << h, mu, cancelled, fromTun, loc, removeCount, toMgrLog, now, env >>

\* hardStop, after the read found remove set: clear it and call it.  hardStop
\* holds no mutex, so a critical section of another goroutine can run between
\* this and the write of the state; loc keeps the state seen here.
hardStopRemove(hh) == [ hh EXCEPT !.remove = FALSE ]

HardStopRemove(g) ==
  /\ Top(g) = "hardStopRemove"
  /\ h' = hardStopRemove(h)
  /\ removeCount' = removeCount + 1
  /\ loc' = [ loc EXCEPT ![g].seen = h.state ]
  /\ pc' = [ pc EXCEPT ![g] = << "hardStopClose" >> \o Rest(g) ]
  /\ wire' = NoPkt
  /\ UNCHANGED << mu, cancelled, fromTun, toMgrLog, now, env >>

\* hardStop: mark CLOSED, cancel, drain fromTun.  The write of the state races
\* with the setState of a critical section that runs at the same time: if that
\* section read the state before this write and wrote it afterwards, its value
\* is the one that stays (lost = TRUE).
hardStopClose(hh, lost) == IF lost THEN hh ELSE writeState(hh, stateClosed, "hardStop")

HardStopClose(g) ==
  /\ Top(g) = "hardStopClose"
  /\ \E lost \in (IF h.state # loc[g].seen /\ h.by = "setState" THEN BOOLEAN ELSE {FALSE}) :
       h' = hardStopClose(h, lost)
  /\ cancelled' = TRUE
  /\ fromTun' = << >>
  /\ loc' = [ loc EXCEPT ![g].seen = "none" ]
  /\ pc' = [ pc EXCEPT ![g] = Rest(g) ]
  /\ wire' = NoPkt
  /\ UNCHANGED << mu, removeCount, toMgrLog, now, env >>

\* Stop: Lock, stopLocked, Unlock.  loc keeps the state Stop found.
Stop(g) ==
  /\ Top(g) = "Stop"
  /\ mu = Free
  /\ \E wok \in WriteOutcomes(stopLocked(h, << >>).out) :
       Finish(g, stopLocked(h, << >>), wok, Rest(g), << >>)
  /\ loc' = [ loc EXCEPT ![g].at = h.state ]
  /\ UNCHANGED << cancelled, fromTun, removeCount, now >>

\* The pool stops the handler
PoolStop ==
  /\ env.started
  /\ pc["pool"] = << >>
  /\ env.stops < MaxStops
  /\ env.faults < MaxFaults
  /\ env' = [ env EXCEPT !.stops = @ + 1, !.faults = @ + 1 ]
  /\ pc' = [ pc EXCEPT !["pool"] = << "Stop" >> ]
  /\ wire' = NoPkt
  /\ UNCHANGED << h, mu, cancelled, fromTun, loc, removeCount, toMgrLog, now >>

\* The TIME-WAIT timer fires: its callback calls Stop
TimerFire ==
  /\ h.stopTimer = "armed"
  /\ pc["timer"] = << >>
  /\ h' = [ h EXCEPT !.stopTimer = "fired" ]
  /\ pc' = [ pc EXCEPT !["timer"] = << "Stop" >> ]
  /\ wire' = NoPkt
  /\ UNCHANGED << mu, cancelled, fromTun, loc, removeCount, toMgrLog, now, env >>

\* The context given to Start is cancelled
CtxCancel ==
  /\ env.started
  /\ ~cancelled
  /\ env.mayCancel
  /\ env.faults < MaxFaults
  /\ cancelled' = TRUE
  /\ env' = [ env EXCEPT !.parentDone = TRUE, !.faults = @ + 1 ]
  /\ wire' = NoPkt
  /\ UNCHANGED << h, mu, fromTun, pc, loc, removeCount, toMgrLog, now >>

\* processPackets: one turn of its loop, up to the first Unlock of process
ExitLabels == << "cleanup", "wgWait", "Stop" >>

ProcessPackets ==
  /\ Top("proc") = "processPackets"
  /\ \E ctxDone \in BOOLEAN :
       IF ctxDone
       THEN /\ cancelled
            /\ pc' = [ pc EXCEPT !["proc"] = ExitLabels ]
            /\ wire' = NoPkt
            /\ UNCHANGED << h, mu, fromTun, loc, toMgrLog, env >>
       ELSE /\ fromTun # << >>
            /\ fromTun' = Tail(fromTun)
            /\ IF h.state = stateClosed
               THEN /\ pc' = [ pc EXCEPT !["proc"] = ExitLabels ]
                    /\ wire' = NoPkt
                    /\ UNCHANGED << h, mu, loc, toMgrLog, env >>
               ELSE /\ mu = Free
                    /\ loc' = [ loc EXCEPT !["proc"] = [ @ EXCEPT !.pkt = Head(fromTun), !.at = h.state,
                                                            !.psa = h.peerSequenceAcked ] ]
                    /\ \E oks \in OkSeqs :
                         \E wok \in WriteOutcomes(process(h, Head(fromTun), oks).out) :
                           Finish("proc", process(h, Head(fromTun), oks), wok, pc["proc"],
                                  ExitLabels)
  /\ UNCHANGED << cancelled, removeCount, now >>

\* The critical section the processor enters after a tunWriteUnlocked or a hardStop
Resume ==
  /\ Top("proc") \in ResumeLabels
  /\ mu = Free
  /\ \E ok \in (IF Top("proc") = "streamCreator" /\ env.streamMayFail /\ env.faults < MaxFaults
                THEN BOOLEAN ELSE {TRUE}) :
       \E wok \in WriteOutcomes(resume(Top("proc"), h, loc["proc"].pkt, ok).out) :
         Finish("proc", resume(Top("proc"), h, loc["proc"].pkt, ok), wok, Rest("proc"), ExitLabels)
  /\ UNCHANGED << cancelled, fromTun, loc, removeCount, now >>

\* The function processPackets defers: recover, clear both queues
Cleanup ==
  /\ Top("proc") = "cleanup"
  /\ mu = Free
  /\ h' = [ h EXCEPT !.ackWaitQueue = << >>, !.oooQueue = << >> ]
  /\ loc' = [ loc EXCEPT !["resend"].garb = Detach(@, loc["resend"].snap, h.ackWaitQueue, << >>) ]
  /\ pc' = [ pc EXCEPT !["proc"] = Rest("proc") ]
  /\ wire' = NoPkt
  /\ UNCHANGED << mu, cancelled, fromTun, removeCount, toMgrLog, now, env >>

\* Start's goroutine waits for the reader of the manager stream
WgWait ==
  /\ Top("proc") = "wgWait"
  /\ pc["reader"] = << >>
  /\ pc' = [ pc EXCEPT !["proc"] = Rest("proc") ]
  /\ wire' = NoPkt
  /\ UNCHANGED << h, mu, cancelled, fromTun, loc, removeCount, toMgrLog, now, env >>

\* readFromMgrLoop ends when the context is done
ReaderExit ==
  /\ Top("reader") = "readFromMgrLoop"
  /\ cancelled
  /\ pc' = [ pc EXCEPT !["reader"] = << >> ]
  /\ wire' = NoPkt
  /\ UNCHANGED << h, mu, cancelled, fromTun, loc, removeCount, toMgrLog, now, env >>

----------------------------------------------------------------------------
(* The peer and the life cycle of a connection *)

Env0 ==
  [ started |-> FALSE, stops |-> 0, tunFails |-> 0, faults |-> 0, mayCancel |-> TRUE,
    mayFail |-> TRUE, streamMayFail |-> TRUE, pkts |-> 0, data |-> 0, sends |-> 0,
    pnxt |-> 0,           \* the peer's next sequence number; 0 before its first packet
    pfin |-> FALSE,       \* the peer has sent its FIN
    rst |-> FALSE,        \* the peer has sent a RST
    clock |-> FALSE,      \* time passes while the connection lives
    parentDone |-> FALSE ] \* the context given to Start has been cancelled

Init0 ==
  /\ h = NewHandler
  /\ mu = Free
  /\ cancelled = FALSE
  /\ fromTun = << >>
  /\ pc = [ g \in Procs |-> << >> ]
  /\ loc = [ g \in Procs |-> NoLoc ]
  /\ wire = NoPkt
  /\ removeCount = 0
  /\ toMgrLog = << >>
  /\ now = 0

SynOf(mss) ==
  [ InPkt(IRS, 0, {"SYN"}, 0, PeerWin) EXCEPT !.mss = mss, !.ws = PeerScale, !.sackOK = TRUE ]

Syn == SynOf(PeerMSS)

\* What a peer that follows its own sequence numbers can send next: the
\* packet, and the peer afterwards
PeerSends(e) ==
  LET e1 == [ e EXCEPT !.pkts = @ + 1 ] IN
  IF e.pnxt = 0
  THEN { << Syn, [ e1 EXCEPT !.pnxt = U32(IRS + 1) ] >>,
         << InPkt(U32(IRS + 1), U32(ISS + 1), {"ACK"}, 0, PeerWin), [ e1 EXCEPT !.pnxt = U32(IRS + 1) ] >> }
  ELSE { << InPkt(e.pnxt, h.sequence, {"ACK"}, 0, PeerWin), e1 >>,
         << InPkt(e.pnxt, 0, {"RST"}, 0, 0), [ e1 EXCEPT !.rst = TRUE ] >> }
       \cup (IF e.pfin THEN {} ELSE
             { << InPkt(e.pnxt, h.sequence, fl, 0, PeerWin),
                  [ e1 EXCEPT !.pnxt = U32(@ + 1), !.pfin = TRUE ] >> :
               fl \in { {"FIN", "ACK"}, {"FIN"} } })
       \cup (IF e.pfin \/ e.data >= MaxData THEN {} ELSE
             { << InPkt(e.pnxt, h.sequence, {"ACK"}, SegLen, PeerWin),
                  [ e1 EXCEPT !.pnxt = U32(@ + SegLen), !.data = @ + 1 ] >> })

Dispatch ==
  /\ env.pkts < MaxPackets
  /\ \E pe \in PeerSends(env) : HandlePacket(pe[1], pe[2])

Init == Init0 /\ env = Env0

Next ==
  \/ Start
  \/ Dispatch
  \/ Enqueue
  \/ ProcessPackets
  \/ Resume
  \/ Cleanup
  \/ WgWait
  \/ ReaderExit
  \/ PoolStop
  \/ TimerFire
  \/ CtxCancel
  \/ \E g \in Procs : Stop(g)
  \/ \E g \in Procs : HardStop(g)
  \/ \E g \in Procs : HardStopRemove(g)
  \/ \E g \in Procs : HardStopClose(g)

Spec == Init /\ [][Next]_vars

----------------------------------------------------------------------------
(* Inbound data: the handshake, then data segments in any order *)

NSegs == 3          \* the peer's stream, in segments of SegLen bytes
MaxSegs == 4        \* how many data segments the peer sends, repeats included

\* writeToMgrLoop takes the next payload from toMgrCh
WriteToMgr ==
  /\ h.stream = "open"
  /\ h.toMgrCh # << >>
  /\ h' = [ h EXCEPT !.toMgrCh = Tail(@) ]
  /\ wire' = NoPkt
  /\ UNCHANGED << mu, cancelled, fromTun, pc, loc, removeCount, toMgrLog, now, env >>

\* The peer's packets: SYN, the ACK of the SYN+ACK, then segments of its
\* stream in any order, some twice, some as one segment of double length
PeerSendsData(e) ==
  LET e1 == [ e EXCEPT !.pkts = @ + 1 ] IN
  IF e.pkts = 0 THEN { << Syn, e1 >> }
  ELSE IF e.pkts = 1 THEN { << InPkt(U32(IRS + 1), U32(ISS + 1), {"ACK"}, 0, PeerWin), e1 >> }
  ELSE IF e.data >= MaxSegs THEN {}
  ELSE { << InPkt(U32(IRS + 1 + i * SegLen), U32(ISS + 1), {"ACK"}, k * SegLen, PeerWin),
            [ e1 EXCEPT !.data = @ + 1 ] >> :
         i \in 0..(NSegs - 1), k \in 1..2 }

DispatchData == \E pe \in PeerSendsData(env) : HandlePacket(pe[1], pe[2])

InitData ==
  /\ Init0
  /\ env = [ Env0 EXCEPT !.mayFail = FALSE, !.streamMayFail = FALSE ]

NextData ==
  \/ Start
  \/ DispatchData
  \/ Enqueue
  \/ ProcessPackets
  \/ Resume
  \/ WriteToMgr
  \/ Cleanup
  \/ WgWait
  \/ ReaderExit
  \/ CtxCancel
  \/ \E g \in Procs : Stop(g)
  \/ \E g \in Procs : HardStop(g)
  \/ \E g \in Procs : HardStopRemove(g)
  \/ \E g \in Procs : HardStopClose(g)

SpecData == InitData /\ [][NextData]_vars

\* C4 as stated: the payloads handed to toMgrCh begin at the peer's first byte
\* and each begins where the one before it ended.
C4_DeliveredContiguous ==
  /\ toMgrLog # << >> => toMgrLog[1][1] = U32(IRS + 1)
  /\ \A i \in 1..(Len(toMgrLog) - 1) :
       toMgrLog[i + 1][1] = U32(toMgrLog[i][1] + toMgrLog[i][2])

----------------------------------------------------------------------------
(* Outbound data: the handshake, then payload from the manager *)

DataLen == 4        \* the length of a payload the manager sends
MaxSends == 1       \* how many payloads the manager sends
WinMSS == 2         \* the MSS option of the peer's SYN in this scenario
MaxWinPackets == 4  \* how many packets the peer sends in this scenario
MaxWinField == 2    \* the window field of the peer's ACKs goes from 0 to this

\* readFromMgrLoop has read a payload from the manager stream and calls processPayload
ReadFromMgr ==
  /\ Top("reader") = "readFromMgrLoop"
  /\ env.sends < MaxSends
  /\ env' = [ env EXCEPT !.sends = @ + 1 ]
  /\ loc' = [ loc EXCEPT !["reader"] = [ NoLoc EXCEPT !.n = DataLen ] ]
  /\ pc' = [ pc EXCEPT !["reader"] = << "processPayload" >> \o @ ]
  /\ wire' = NoPkt
  /\ UNCHANGED << h, mu, cancelled, fromTun, removeCount, toMgrLog, now >>

\* preparePackageFromPayload: the window left, and the length of the next segment
windowLeft(hh) == hh.peerWindow - U32(hh.sequence - hh.sequenceAcked)

mxSendOf(hh, n, start) ==
  IF n - start > hh.peerMaxSegmentSize THEN hh.peerMaxSegmentSize ELSE n - start

\* preparePackageFromPayload from newResponse on: build the segment, take its
\* bytes off the peer's window, prepareToSend; then Unlock and tunWrite
emitPayload(hh, mxSend, psh) ==
  LET pkt == [ newResponse(hh, mxSend) EXCEPT
                 !.flags = {"ACK"} \cup (IF psh THEN {"PSH"} ELSE {}) ]
      h1 == [ hh EXCEPT !.peerWindow = @ - mxSend ]
  IN Seg(prepareToSend(h1, pkt, mxSend), stamp(h1, pkt), << >>)

\* history: the segment put together now takes the bytes in flight beyond the
\* peer's window
exceedsWindow(hh, mxSend) ==
  U32(hh.sequence - hh.sequenceAcked) + mxSend > hh.peerWindow

\* awaitWindowSize, up to its Unlock
awaitWindowSize(hh, sz) == [ hh EXCEPT !.awaitWinSize = [ rqSize |-> sz ] ]

\* processPayload: one turn of its loop, up to the Unlock (of processPayload,
\* or of awaitWindowSize if the window is too small) and the TUN write
ProcessPayload ==
  /\ Top("reader") = "processPayload"
  /\ mu = Free
  /\ LET l == loc["reader"]
         mx == mxSendOf(h, l.n, l.start)
     IN IF l.n <= l.start \/ h.state \in {stateTimeWait, stateClosed}
        THEN /\ pc' = [ pc EXCEPT !["reader"] = Rest("reader") ]
             /\ wire' = NoPkt
             /\ UNCHANGED << h, mu, loc, toMgrLog, env >>
        ELSE IF windowLeft(h) < mx
        THEN /\ h' = awaitWindowSize(h, mx)
             /\ loc' = [ loc EXCEPT !["reader"].rq = mx ]
             /\ pc' = [ pc EXCEPT !["reader"] = << "awaitWindowSize" >> \o @ ]
             /\ wire' = NoPkt
             /\ UNCHANGED << mu, toMgrLog, env >>
        ELSE /\ loc' = [ loc EXCEPT !["reader"].start = @ + mx,
                                     !["reader"].over = exceedsWindow(h, mx),
                                     !["reader"].zwp = FALSE ]
             /\ \E wok \in WriteOutcomes(emitPayload(h, mx, l.start + mx = l.n).out) :
                  Finish("reader", emitPayload(h, mx, l.start + mx = l.n), wok,
                         pc["reader"], << >>)
  /\ UNCHANGED << cancelled, fromTun, removeCount, now >>

\* awaitWindowSize, its select: the context is done, an ACK has closed ap.done
\* (setAckAndPeerWindowSize then cleared awaitWinSize), or 3 seconds are over
AwaitWindowSize ==
  /\ Top("reader") = "awaitWindowSize"
  /\ \E w \in {"cancel", "ack", "timeout"} :
       /\ w = "cancel" => cancelled
       /\ w = "ack" => h.awaitWinSize = NoPkt
       /\ loc' = [ loc EXCEPT
                     !["reader"].woke = w,
                     !["reader"].proceed =
                        (w = "timeout" \/ (w = "ack" /\ h.state # stateClosed)) ]
  /\ pc' = [ pc EXCEPT !["reader"] = << "afterAwait" >> \o Rest("reader") ]
  /\ wire' = NoPkt
  /\ UNCHANGED << h, mu, cancelled, fromTun, removeCount, toMgrLog, now, env >>

\* awaitWindowSize, from its Lock on, and the rest of preparePackageFromPayload:
\* the segment is sent as it was sized before the wait, or as a probe of one
\* byte after the timeout
AfterAwait ==
  /\ Top("reader") = "afterAwait"
  /\ mu = Free
  /\ LET l == loc["reader"]
         mx == IF l.woke = "timeout" THEN 1 ELSE l.rq
     IN IF ~l.proceed
        THEN /\ pc' = [ pc EXCEPT !["reader"] = Tail(Rest("reader")) ]
             /\ wire' = NoPkt
             /\ UNCHANGED << h, mu, loc, toMgrLog, env >>
        ELSE /\ loc' = [ loc EXCEPT !["reader"].start = @ + mx,
                                     !["reader"].over = exceedsWindow(h, mx),
                                     !["reader"].zwp = (l.woke = "timeout") ]
             /\ \E wok \in WriteOutcomes(emitPayload(h, mx, l.start + mx = l.n).out) :
                  Finish("reader", emitPayload(h, mx, l.start + mx = l.n), wok,
                         Rest("reader"), << >>)
  /\ UNCHANGED << cancelled, fromTun, removeCount, now >>

\* The peer's packets: a SYN with a small MSS and no window scale option, then
\* ACKs of everything sent so far, each with a window field of its choice
PeerSendsWin(e) ==
  LET e1 == [ e EXCEPT !.pkts = @ + 1 ] IN
  IF e.pkts = 0 THEN { << [ SynOf(WinMSS) EXCEPT !.ws = 0 ], e1 >> }
  ELSE IF e.pkts >= MaxWinPackets THEN {}
  ELSE { << InPkt(U32(IRS + 1), h.sequence, {"ACK"}, 0, w), e1 >> : w \in 0..MaxWinField }

DispatchWin == \E pe \in PeerSendsWin(env) : HandlePacket(pe[1], pe[2])

InitWin ==
  /\ Init0
  /\ env = [ Env0 EXCEPT !.mayCancel = FALSE, !.mayFail = FALSE, !.streamMayFail = FALSE ]

NextWin ==
  \/ Start
  \/ DispatchWin
  \/ Enqueue
  \/ ProcessPackets
  \/ Resume
  \/ ReadFromMgr
  \/ ProcessPayload
  \/ AwaitWindowSize
  \/ AfterAwait

SpecWin == InitWin /\ [][NextWin]_vars

\* C5 as stated: a data segment that takes the bytes in flight beyond the
\* peer's window (sequence + payloadLen - sequenceAcked > peerWindow when it is
\* put together) is the one-byte probe sent after the 3-second timeout.
C5_WithinPeerWindow == loc["reader"].over => loc["reader"].zwp

----------------------------------------------------------------------------
(* Cancellation: the handshake, then the context given to Start is cancelled *)

LivePackets == 2    \* how many packets the peer sends before the cancellation

DispatchLive ==
  /\ env.pkts < LivePackets
  /\ \E pe \in PeerSends(env) : HandlePacket(pe[1], pe[2])

NextLive ==
  \/ Start
  \/ DispatchLive
  \/ Enqueue
  \/ ProcessPackets
  \/ Resume
  \/ Cleanup
  \/ WgWait
  \/ ReaderExit
  \/ CtxCancel
  \/ \E g \in Procs : Stop(g)
  \/ \E g \in Procs : HardStop(g)
  \/ \E g \in Procs : HardStopRemove(g)
  \/ \E g \in Procs : HardStopClose(g)

\* Every goroutine of the handler that can take a step takes it in the end: the
\* Go scheduler runs every runnable goroutine.  Nothing is assumed of the peer
\* and of the owner of the context.
Fairness ==
  /\ WF_vars(Enqueue) /\ WF_vars(ProcessPackets) /\ WF_vars(Resume)
  /\ WF_vars(Cleanup) /\ WF_vars(WgWait) /\ WF_vars(ReaderExit)
  /\ \A g \in Procs :
       /\ WF_vars(Stop(g)) /\ WF_vars(HardStop(g))
       /\ WF_vars(HardStopRemove(g)) /\ WF_vars(HardStopClose(g))

LiveSpec == Init /\ [][NextLive]_vars /\ Fairness

\* C3 as stated, for a connection that is ESTABLISHED: once the context given
\* to Start is cancelled, the processor goroutine ends, both queues are empty
\* and remove has been invoked exactly once.
C3_CancelLeadsToRemoved ==
  (env.parentDone /\ h.state = stateEstablished) ~>
    (Done /\ h.ackWaitQueue = << >> /\ h.oooQueue = << >> /\ removeCount = 1)

----------------------------------------------------------------------------
(* The state machine of section 4.1 *)

Permitted(from, to) ==
  CASE from = stateClosed      -> to \in {stateListen, stateSynSent}
    [] from = stateListen      -> to \in {stateSynReceived, stateSynSent, stateListen}
    [] from = stateSynReceived -> to \in {stateEstablished, stateFinWait1, stateClosed}
    [] from = stateSynSent     -> to \in {stateSynReceived, stateEstablished, stateClosed}
    [] from = stateEstablished -> to \in {stateCloseWait, stateFinWait1}
    [] from = stateFinWait1    -> to \in {stateClosing, stateFinWait2, stateTimeWait}
    [] from = stateFinWait2    -> to = stateTimeWait
    [] from = stateClosing     -> to = stateTimeWait
    [] from = stateCloseWait   -> to = stateLastAck
    [] from = stateLastAck     -> to = stateClosed
    [] OTHER                   -> FALSE

C2_RemoveAtMostOnce == removeCount <= 1

----------------------------------------------------------------------------
(* A RST in the receive window *)

\* HandlePacket has returned from the hardStop it made for a RST that was in
\* the receive window, and the handler was ESTABLISHED when the call began
RstReturned ==
  /\ pc["disp"] = << >>
  /\ loc["disp"].pkt # NoPkt
  /\ "RST" \in loc["disp"].pkt.flags
  /\ loc["disp"].at = stateEstablished

\* C6 as stated: once HandlePacket has handled an in-window RST received in
\* ESTABLISHED, the handler is CLOSED, remove has been invoked, the context is
\* cancelled, fromTun is empty, and no FIN goes to TUN.
C6_RstClosesAtOnce ==
  RstReturned =>
    /\ h.state = stateClosed
    /\ removeCount >= 1
    /\ cancelled
    /\ fromTun = << >>
    /\ wire # NoPkt => "FIN" \notin wire.flags

----------------------------------------------------------------------------
(* The handshake *)

\* The processor has finished a segment with ACK set and sequence equal to
\* peerSequenceAcked that it took up in SYN-RECEIVED
AckProcessedInSynReceived ==
  /\ Top("proc") = "processPackets"
  /\ loc["proc"].at = stateSynReceived
  /\ loc["proc"].pkt # NoPkt
  /\ "ACK" \in loc["proc"].pkt.flags
  /\ loc["proc"].pkt.seq = loc["proc"].psa

\* C7 as stated: after such a segment the handler is not in SYN-RECEIVED any
\* more (it went to ESTABLISHED), whatever the segment carried.
C7_AckEstablishes == AckProcessedInSynReceived => h.state # stateSynReceived

\* C8 as stated: once listen has returned after the stream factory failed, the
\* handler is CLOSED and remove has been invoked.
C8_StreamErrorStops ==
  (h.stream = "failed" /\ Top("proc") = "processPackets") =>
    (h.state = stateClosed /\ removeCount >= 1)

----------------------------------------------------------------------------
(* Stop *)

\* The step in which g runs the critical section of Stop
StopStep(g) == Top(g) = "Stop" /\ pc'[g] # pc[g]

FinAckWritten == wire' # NoPkt /\ {"FIN", "ACK"} \subseteq wire'.flags

\* C9: Stop acts by the state it finds: ESTABLISHED and SYN-RECEIVED emit
\* FIN+ACK and go to FIN-WAIT-1; CLOSE-WAIT emits FIN+ACK and goes to LAST-ACK;
\* CLOSED, TIME-WAIT and LAST-ACK emit nothing and go on to hardStop; every
\* other state emits a RST and goes on to hardStop.
C9_StopByState ==
  [][ \A g \in Procs :
        StopStep(g) =>
          CASE h.state \in {stateEstablished, stateSynReceived} ->
                 FinAckWritten /\ h'.state = stateFinWait1
            [] h.state = stateCloseWait ->
                 FinAckWritten /\ h'.state = stateLastAck
            [] h.state \in {stateClosed, stateTimeWait, stateLastAck} ->
                 wire' = NoPkt /\ Head(pc'[g]) = "hardStop" /\ h'.state = h.state
            [] OTHER ->
                 /\ wire' # NoPkt /\ wire'.flags = {"RST"}
                 /\ Head(pc'[g]) = "hardStop"
                 /\ h'.state = h.state ]_vars

\* Stop has found the handler in CLOSE-WAIT: FIN+ACK is on its way, the state is LAST-ACK
C9_Witness ==
  /\ h.state = stateLastAck /\ h.from = stateCloseWait
  /\ wire # NoPkt /\ {"FIN", "ACK"} \subseteq wire.flags

\* The pool has called Stop in ESTABLISHED and the last segment the processor
\* took up was the peer's FIN, in FIN-WAIT-2, in a run with no RST, no
\* cancellation, no TUN failure and no other Stop
ActiveCloseFinReceived ==
  /\ loc["pool"].at = stateEstablished
  /\ loc["proc"].at = stateFinWait2
  /\ loc["proc"].pkt # NoPkt /\ "FIN" \in loc["proc"].pkt.flags
  /\ ~env.rst /\ ~env.parentDone /\ env.tunFails = 0 /\ env.stops <= 1

\* C10 as stated: after an active close the handler leaves TIME-WAIT for
\* CLOSED, and remove is invoked, only after the TIME-WAIT timer has fired.
C10_TimeWaitUntilTimer ==
  (ActiveCloseFinReceived /\ (h.state = stateClosed \/ removeCount > 0)) =>
    h.stopTimer = "fired"

----------------------------------------------------------------------------
(* Inbound segments in any order, FIN with and without payload, the clock *)

MaxRecv == 3        \* how many segments the peer sends after the handshake
MaxNow == 1         \* how far the clock goes
RecvSegs == 4       \* the places of the peer's stream a data segment can begin at

\* time.Now moves on
Tick ==
  /\ now < MaxNow
  /\ now' = now + 1
  /\ wire' = NoPkt
  /\ UNCHANGED << h, mu, cancelled, fromTun, pc, loc, removeCount, toMgrLog, env >>

\* The peer's packets: SYN, the ACK of the SYN+ACK, then data segments at any
\* place of its stream, a FIN with or without payload, and, from a peer that
\* goes on after its FIN, a data segment behind the FIN
PeerSendsRecv(e) ==
  LET e1 == [ e EXCEPT !.pkts = @ + 1 ] IN
  IF e.pkts = 0 THEN { << Syn, e1 >> }
  ELSE IF e.pkts = 1 THEN { << InPkt(U32(IRS + 1), U32(ISS + 1), {"ACK"}, 0, PeerWin), e1 >> }
  ELSE IF e.data >= MaxRecv THEN {}
  ELSE { << InPkt(U32(IRS + 1 + i * SegLen), U32(ISS + 1), {"ACK"}, SegLen, PeerWin),
            [ e1 EXCEPT !.data = @ + 1 ] >> :
         i \in 0..(RecvSegs - 1) }
       \cup (IF e.pfin THEN {} ELSE
             { << InPkt(U32(IRS + 1 + i * SegLen), U32(ISS + 1), {"FIN", "ACK"}, l, PeerWin),
                  [ e1 EXCEPT !.data = @ + 1, !.pfin = TRUE, !.pnxt = U32(IRS + 1 + i * SegLen + l + 1) ] >> :
               i \in 0..1, l \in {0, SegLen} })
       \cup (IF ~e.pfin THEN {} ELSE
             { << InPkt(e.pnxt, U32(ISS + 1), {"ACK"}, SegLen, PeerWin), [ e1 EXCEPT !.data = @ + 1 ] >> })

DispatchRecv == \E pe \in PeerSendsRecv(env) : HandlePacket(pe[1], pe[2])

InitRecv ==
  /\ Init0
  /\ env = [ Env0 EXCEPT !.mayCancel = FALSE, !.mayFail = FALSE, !.streamMayFail = FALSE ]

NextRecv ==
  \/ Start
  \/ DispatchRecv
  \/ Enqueue
  \/ ProcessPackets
  \/ Resume
  \/ WriteToMgr
  \/ Tick
  \/ Cleanup
  \/ WgWait
  \/ ReaderExit
  \/ PoolStop
  \/ \E g \in Procs : Stop(g)
  \/ \E g \in Procs : HardStop(g)
  \/ \E g \in Procs : HardStopRemove(g)
  \/ \E g \in Procs : HardStopClose(g)

SpecRecv == InitRecv /\ [][NextRecv]_vars

\* The step in which the processor takes the next packet from fromTun and
\* processes it
TakesUp ==
  /\ Top("proc") = "processPackets"
  /\ fromTun # << >>
  /\ fromTun' = Tail(fromTun)
  /\ pc'["proc"] # pc["proc"] \/ mu' # mu \/ h' # h \/ wire' # NoPkt \/ loc'["proc"] # loc["proc"]
  /\ \A g \in Procs \ {"proc"} : pc'[g] = pc[g]

\* C12 as stated: a segment with FIN set and sequence equal to
\* peerSequenceAcked that is processed in ESTABLISHED, with or without payload,
\* moves the handler to CLOSE-WAIT, closes toMgrCh (which was open) and writes
\* an ACK that acknowledges the FIN.
C12_FinInEstablished ==
  [][ ( /\ TakesUp
        /\ h.state = stateEstablished
        /\ "FIN" \in Head(fromTun).flags
        /\ Head(fromTun).seq = h.peerSequenceAcked )
      => ( /\ h'.state = stateCloseWait
           /\ ~h.toMgrClosed /\ h'.toMgrClosed
           /\ wire' # NoPkt /\ "ACK" \in wire'.flags
           /\ wire'.ack = U32(Head(fromTun).seq + Head(fromTun).len + 1) ) ]_vars

\* C16 as stated: after a panic in the processing of a packet the function
\* processPackets deferred goes on (it clears both queues, then Start's
\* deferred Stop runs): it does not wait for a mutex that its own goroutine
\* holds, a wait that would never end.
C16_PanicRecovered == Top("proc") = "cleanup" => mu # "proc"

----------------------------------------------------------------------------
(* The queue of segments received out of order *)

\* C14: the OOO queue is strictly ascending in sequence from head to tail, so
\* no two of its entries have the same sequence, whatever the order of the
\* insertions and drains.
C14_OooAscending ==
  \A i \in 1..(Len(h.oooQueue) - 1) : h.oooQueue[i].sequence < h.oooQueue[i + 1].sequence

\* Three segments are queued, and the middle one arrived after the last one
C14_Witness ==
  /\ Len(h.oooQueue) = 3
  /\ h.oooQueue[2].cTime > h.oooQueue[3].cTime

----------------------------------------------------------------------------
(* What has been acknowledged to the peer *)

\* C15: in every state peerSequenceToAck >= peerSequenceAcked, and
\* peerSequenceAcked, the acknowledgement number of the last segment sent,
\* never decreases (sequence numbers far from the wrap at 2^32).
C15_AckedMonotonic ==
  /\ [](h.peerSequenceToAck >= h.peerSequenceAcked)
  /\ [][h'.peerSequenceAcked >= h.peerSequenceAcked]_vars

\* A segment just written acknowledges more than one segment at once: the
\* in-order segment and what the drain of the OOO queue added
C15_Witness ==
  /\ wire # NoPkt
  /\ wire.ack = h.peerSequenceAcked
  /\ h.peerSequenceAcked >= U32(IRS + 1 + 2 * SegLen)
  /\ h.peerSequenceToAck = h.peerSequenceAcked

----------------------------------------------------------------------------
(* The SACK option of outbound segments *)

\* The entries i..j of the queue q follow each other without a gap
Contiguous(q, i, j) == \A k \in i..(j - 1) : U32(q[k].sequence + q[k].len) = q[k + 1].sequence

\* The maximal contiguous runs of q, as << first entry, last entry >>
MaximalRuns(q) ==
  { ij \in (1..Len(q)) \X (1..Len(q)) :
      /\ ij[1] <= ij[2]
      /\ Contiguous(q, ij[1], ij[2])
      /\ ij[1] > 1 => ~Contiguous(q, ij[1] - 1, ij[2])
      /\ ij[2] < Len(q) => ~Contiguous(q, ij[1], ij[2] + 1) }

\* C20 as stated: a segment written while the OOO queue is not empty carries
\* one SACK block (leftEdge, rightEdge) for each maximal contiguous run of
\* queued segments and no other, at most four, and the first block holds a
\* segment that arrived last.
C20_SackOnEverySegment ==
  (wire # NoPkt /\ h.oooQueue # << >>) =>
    LET q == h.oooQueue
        runs == MaximalRuns(q)
        edges == { << q[ij[1]].sequence, U32(q[ij[2]].sequence + q[ij[2]].len) >> : ij \in runs }
    IN /\ wire.sack # << >>
       /\ Len(wire.sack) <= 4
       /\ Cardinality(edges) <= 4 => { wire.sack[i] : i \in 1..Len(wire.sack) } = edges
       /\ Len(wire.sack) = Cardinality({ wire.sack[i] : i \in 1..Len(wire.sack) })
       /\ \E k \in 1..Len(q) :
            /\ \A m \in 1..Len(q) : q[m].cTime <= q[k].cTime
            /\ wire.sack[1][1] <= q[k].sequence /\ q[k].sequence < wire.sack[1][2]

----------------------------------------------------------------------------
(* HandlePacket after hardStop *)

\* C17 as stated: a call of HandlePacket that began after hardStop had
\* completed (the state it found was CLOSED, written by hardStop, which also
\* cancelled the context and drained fromTun) returns without putting its
\* packet on fromTun.
C17_NoPacketAfterHardStop ==
  [][ ( /\ Top("disp") = "enqueue"
        /\ pc'["disp"] = << >>
        /\ loc["disp"].at = stateClosed
        /\ h.state = stateClosed /\ h.by = "hardStop"
        /\ cancelled )
      => fromTun' = fromTun ]_vars

----------------------------------------------------------------------------
(* Retransmission: the handshake without SACK, payload from the manager,
   ACKs, and the clock *)

ResendMSS == 2        \* the MSS option of the peer's SYN in this scenario
MaxResendPackets == 4 \* how many packets the peer sends in this scenario
Horizon == 3000       \* how far the clock goes, in ticks

\* The ticks from now on at which the scan of processResends finds a record to
\* resend or to unlink: for each record that resend does not pass over as
\* acknowledged, the first tick at or after its deadline
DueTicks(hh) ==
  { t \in { IF (deadLine(hh, hh.ackWaitQueue[i]) + TickMs - 1) \div TickMs > now
            THEN (deadLine(hh, hh.ackWaitQueue[i]) + TickMs - 1) \div TickMs
            ELSE now + 1 :
            i \in { j \in 1..Len(hh.ackWaitQueue) :
                      hh.ackWaitQueue[j].packet.seq > hh.sequenceAcked } } :
      t <= Horizon }

NextScan(hh) == CHOOSE t \in DueTicks(hh) : \A u \in DueTicks(hh) : t <= u

\* processResends, its select: the context is done, or the ticker fires.  The
\* ticks at which the scan would pass over every record are left out: the clock
\* goes on to the next tick at which it does not.
ProcessResends ==
  /\ Top("resend") = "ticker"
  /\ \E done \in BOOLEAN :
       IF done
       THEN /\ cancelled
            /\ now' = now
            /\ pc' = [ pc EXCEPT !["resend"] = << >> ]
       ELSE /\ DueTicks(h) # {}
            /\ now' = NextScan(h)
            /\ pc' = [ pc EXCEPT !["resend"] =
                         IF h.state = stateClosed THEN << >> ELSE << "scan", "ticker" >> ]
  /\ wire' = NoPkt
  /\ UNCHANGED << h, mu, cancelled, fromTun, loc, removeCount, toMgrLog, env >>

\* processResends from its Lock on: the list, then resend up to its first
\* tunWriteUnlocked or to the Unlock of processResends
ResendScan ==
  /\ Top("resend") = "scan"
  /\ mu = Free
  /\ LET r == resend(h, now, Reversed(h.ackWaitQueue), {}, Reversed(h.ackWaitQueue)) IN
       /\ loc' = [ loc EXCEPT !["resend"] =
                     IF r.out = NoPkt THEN NoLoc
                     ELSE [ NoLoc EXCEPT !.rs = r.rs, !.garb = r.garb,
                                         !.snap = Reversed(h.ackWaitQueue) ] ]
       /\ \E wok \in WriteOutcomes(r.out) :
            Finish("resend",
                   Seg(r.h, r.out, IF r.out = NoPkt THEN << >> ELSE << "resend" >>),
                   wok, Rest("resend"), << >>)
  /\ UNCHANGED << cancelled, fromTun, removeCount, now >>

\* resend from the Lock of tunWriteUnlocked on
ResendNext ==
  /\ Top("resend") = "resend"
  /\ mu = Free
  /\ LET r == resend(h, now, loc["resend"].rs, loc["resend"].garb, loc["resend"].snap)
     IN /\ loc' = [ loc EXCEPT !["resend"] =
                      IF r.out = NoPkt THEN NoLoc
                      ELSE [ NoLoc EXCEPT !.rs = r.rs, !.garb = r.garb,
                                          !.snap = loc["resend"].snap ] ]
        /\ \E wok \in WriteOutcomes(r.out) :
             Finish("resend",
                    Seg(r.h, r.out, IF r.out = NoPkt THEN << >> ELSE << "resend" >>),
                    wok, Rest("resend"), << >>)
  /\ UNCHANGED << cancelled, fromTun, removeCount, now >>

\* The peer's packets: a SYN with a small MSS and SACK not permitted, the ACK
\* of the SYN+ACK, then ACKs of nothing new, of the first segment or of
\* everything sent so far
PeerSendsResend(e) ==
  LET e1 == [ e EXCEPT !.pkts = @ + 1 ] IN
  IF e.pkts = 0 THEN { << [ SynOf(ResendMSS) EXCEPT !.sackOK = FALSE ], e1 >> }
  ELSE IF e.pkts = 1 THEN { << InPkt(U32(IRS + 1), U32(ISS + 1), {"ACK"}, 0, PeerWin), e1 >> }
  ELSE IF e.pkts >= MaxResendPackets \/ h.sequence = U32(ISS + 1) THEN {}
  ELSE { << InPkt(U32(IRS + 1), a, {"ACK"}, 0, PeerWin), e1 >> :
           a \in { U32(ISS + 1), U32(ISS + 1 + ResendMSS), h.sequence } }

DispatchResend == \E pe \in PeerSendsResend(env) : HandlePacket(pe[1], pe[2])

InitResend ==
  /\ Init0
  /\ env = [ Env0 EXCEPT !.mayCancel = FALSE, !.mayFail = FALSE, !.streamMayFail = FALSE,
                         !.clock = TRUE ]

NextResend ==
  \/ Start
  \/ DispatchResend
  \/ Enqueue
  \/ ProcessPackets
  \/ Resume
  \/ ReadFromMgr
  \/ ProcessPayload
  \/ ProcessResends
  \/ ResendScan
  \/ ResendNext

SpecResend == InitResend /\ [][NextResend]_vars

\* The step in which processResends takes the mutex and begins its scan
ScanBegins == Top("resend") = "scan" /\ pc'["resend"] # pc["resend"]

\* A record the peer has not acknowledged, whose deadline has passed and whose
\* retries are below maxResends
Owed(el) ==
  /\ el.sequence > h.sequenceAcked
  /\ now * TickMs >= deadLine(h, el)
  /\ el.retries < maxResends

\* C11 as stated, for the first record a scan has to write: when a scan begins
\* and records are owed, the oldest of them (the last one in the queue) is
\* written to TUN with its sequence number, flags and length, and its retries
\* go up by one.
C11_ScanResendsOwed ==
  [][ (ScanBegins /\ \E i \in 1..Len(h.ackWaitQueue) : Owed(h.ackWaitQueue[i]))
      => LET q == h.ackWaitQueue
             i == CHOOSE j \in 1..Len(q) :
                    Owed(q[j]) /\ \A k \in (j + 1)..Len(q) : ~Owed(q[k])
         IN /\ wire' # NoPkt
            /\ wire'.seq = q[i].packet.seq
            /\ wire'.len = q[i].packet.len
            /\ wire'.flags = q[i].packet.flags
            /\ \E k \in 1..Len(h'.ackWaitQueue) :
                 /\ h'.ackWaitQueue[k].sequence = q[i].sequence
                 /\ h'.ackWaitQueue[k].retries = q[i].retries + 1 ]_vars

\* C13: the ack-wait queue is strictly descending in sequence from head to
\* tail in every state, and in the step in which HandlePacket applies an ACK
\* with number A no record with sequence <= A is left (sequence numbers far
\* from the wrap at 2^32).
C13_AckWaitDescending ==
  /\ [](\A i \in 1..(Len(h.ackWaitQueue) - 1) :
          h.ackWaitQueue[i].sequence > h.ackWaitQueue[i + 1].sequence)
  /\ [][ (pc["disp"] = << >> /\ Top("disp")' = "enqueue" /\ "ACK" \in loc'["disp"].pkt.flags
          /\ loc'["disp"].pkt.ack # 0)
         => \A i \in 1..Len(h'.ackWaitQueue) :
              h'.ackWaitQueue[i].sequence > loc'["disp"].pkt.ack ]_vars

\* Two segments were sent; the second was given up after maxResends resends
\* and unlinked, the first is still queued
C13_Witness ==
  /\ h.sequence = U32(ISS + 1 + 2 * ResendMSS)
  /\ Len(h.ackWaitQueue) = 1
  /\ h.ackWaitQueue[1].sequence = U32(ISS + 1 + ResendMSS)
  /\ h.sequenceAcked = U32(ISS + 1)
  /\ now >= (initialResendDelayMs * (2 ^ maxResends)) \div TickMs

\* C18 as stated, with SACK not negotiated and a tolerance of one tick: once a
\* scan is over, a record that has been unacknowledged for 200 ms has been
\* resent; a record is not resent before 200 ms and not a second time before
\* 600 ms after it was first sent; it is resent at most maxResends times; and
\* it is not in the queue any more once the last wait is over.
C18_BackoffSchedule ==
  ~h.peerPermitsSACK =>
    \A i \in 1..Len(h.ackWaitQueue) :
      LET el == h.ackWaitQueue[i]
          age == (now - el.cTime) * TickMs
      IN /\ (Top("resend") = "ticker" /\ el.sequence > h.sequenceAcked
             /\ age >= initialResendDelayMs) => el.retries >= 1
         /\ el.retries >= 1 => age >= initialResendDelayMs
         /\ el.retries >= 2 => age >= 3 * initialResendDelayMs - TickMs
         /\ el.retries <= maxResends
         /\ (Top("resend") = "ticker" /\ el.sequence > h.sequenceAcked)
              => age < initialResendDelayMs * (2 ^ (maxResends + 1)) + TickMs

\* ---------------------------------------------------------------------------
\* Selective acknowledgements of the peer: the peer permits SACK and announces
\* a small segment size, the manager's payload leaves as several segments, and
\* the peer acknowledges some of them selectively.
\* ---------------------------------------------------------------------------
SackMSS == 1           \* the peer's maximum segment size
MaxSackPackets == 4    \* packets of the peer, handshake included

\* The blocks a peer can report of the segments (a, last): one segment, or
\* two segments with a gap between them
SackBlocks(a, last) ==
  { << << l, U32(l + SackMSS) >> >> : l \in { s \in (a + 1)..(last - 1) : TRUE } }
  \cup { << << l, U32(l + SackMSS) >>, << U32(l + 2 * SackMSS), U32(l + 3 * SackMSS) >> >> :
           l \in { s \in (a + 1)..(last - 1) : s + 3 * SackMSS <= last } }

\* The peer's packets: a SYN that permits SACK, the ACK of the SYN+ACK, then
\* ACKs of nothing new or of the first segment, with or without SACK blocks for
\* later segments, or with a block at the acknowledged number (a D-SACK)
PeerSendsSack(e) ==
  LET e1 == [ e EXCEPT !.pkts = @ + 1 ] IN
  IF e.pkts = 0 THEN { << SynOf(SackMSS), e1 >> }
  ELSE IF e.pkts = 1 THEN { << InPkt(U32(IRS + 1), U32(ISS + 1), {"ACK"}, 0, PeerWin), e1 >> }
  ELSE IF e.pkts >= MaxSackPackets \/ h.sequence = U32(ISS + 1) THEN {}
  ELSE { << [ InPkt(U32(IRS + 1), a, {"ACK"}, 0, PeerWin) EXCEPT !.sack = s ], e1 >> :
           a \in { U32(ISS + 1), U32(ISS + 1 + SackMSS) },
           s \in { << >>, << << U32(ISS + 1), U32(ISS + 1 + SackMSS) >> >> }
                 \cup SackBlocks(U32(ISS + 1 + SackMSS), h.sequence) }

DispatchSack == \E pe \in PeerSendsSack(env) : HandlePacket(pe[1], pe[2])

InitSack ==
  /\ Init0
  /\ env = [ Env0 EXCEPT !.mayCancel = FALSE, !.mayFail = FALSE, !.streamMayFail = FALSE ]

NextSack ==
  \/ Start
  \/ DispatchSack
  \/ Enqueue
  \/ ProcessPackets
  \/ Resume
  \/ ReadFromMgr
  \/ ProcessPayload
  \/ Tick

SpecSack == InitSack /\ [][NextSack]_vars

\* The step in which the processor takes up an ACK whose SACK option is not a
\* D-SACK
SackTakenUp ==
  /\ Top("proc") = "processPackets"
  /\ fromTun # << >>
  /\ fromTun' = Tail(fromTun)
  /\ h.state # stateClosed
  /\ mu' # mu \/ h' # h \/ wire' # NoPkt \/ loc'["proc"] # loc["proc"]
  /\ \A g \in Procs \ {"proc"} : pc'[g] = pc[g]
  /\ "ACK" \in Head(fromTun).flags
  /\ Head(fromTun).sack # << >>
  /\ h.sequenceAcked < Head(fromTun).sack[1][1]

\* The records in an implied gap of the blocks: from sequenceAcked, or from the
\* right edge of the block before, up to the left edge of a block
GapRecords(hh, sacks) ==
  { i \in 1..Len(hh.ackWaitQueue) :
      \E b \in 1..Len(sacks) :
        /\ hh.ackWaitQueue[i].sequence
             >= (IF b = 1 THEN hh.sequenceAcked ELSE sacks[b - 1][2])
        /\ hh.ackWaitQueue[i].sequence < sacks[b][1] }

\* C19 as stated, for the first segment written: when the processor takes up
\* an ACK with a SACK option that is not a D-SACK and records lie in an implied
\* gap, a segment of such a record is written to TUN in that step, and every
\* such record has cTime = now afterwards.
C19_SackResendsGaps ==
  [][ (SackTakenUp /\ GapRecords(h, Head(fromTun).sack) # {})
      => /\ \A i \in GapRecords(h, Head(fromTun).sack) :
              \E k \in 1..Len(h'.ackWaitQueue) :
                /\ h'.ackWaitQueue[k].sequence = h.ackWaitQueue[i].sequence
                /\ h'.ackWaitQueue[k].cTime = now
         /\ wire' # NoPkt
         /\ \E i \in GapRecords(h, Head(fromTun).sack) :
              /\ wire'.seq = h.ackWaitQueue[i].packet.seq
              /\ wire'.len = h.ackWaitQueue[i].packet.len ]_vars

\* ---------------------------------------------------------------------------
\* Resets of the peer, inside and outside of the receive window
\* ---------------------------------------------------------------------------
MaxRstPackets == 4     \* packets of the peer, handshake included

\* A sequence number outside of the receive window: one below it, or its end
Outside(hh) ==
  { U32(hh.peerSequenceAcked + receiveWindow(hh)) }
  \cup (IF hh.peerSequenceAcked > 0 THEN { U32(hh.peerSequenceAcked - 1) } ELSE {})

\* The peer's packets: SYN, the ACK of the SYN+ACK and a data segment, and in
\* every state a RST, with or without ACK, in the window or outside of it
PeerSendsRst(e) ==
  LET e1 == [ e EXCEPT !.pkts = @ + 1 ] IN
  IF e.pkts >= MaxRstPackets THEN {}
  ELSE (IF e.pnxt = 0
        THEN { << Syn, [ e1 EXCEPT !.pnxt = U32(IRS + 1) ] >> }
        ELSE { << InPkt(e.pnxt, U32(ISS + 1), {"ACK"}, l, PeerWin), [ e1 EXCEPT !.pnxt = U32(@ + l) ] >> :
                 l \in {0, SegLen} })
       \cup { << InPkt(sq, a, fl, 0, 0), [ e1 EXCEPT !.rst = TRUE ] >> :
                sq \in Outside(h) \cup { h.peerSequenceAcked },
                a \in {0, U32(ISS + 1)},
                fl \in { {"RST"}, {"RST", "ACK"} } }

DispatchRst == \E pe \in PeerSendsRst(env) : HandlePacket(pe[1], pe[2])

InitRst ==
  /\ Init0
  /\ env = [ Env0 EXCEPT !.mayCancel = FALSE, !.mayFail = FALSE, !.streamMayFail = FALSE ]

NextRst ==
  \/ Start
  \/ DispatchRst
  \/ Enqueue
  \/ ProcessPackets
  \/ Resume
  \/ WriteToMgr
  \/ \E g \in Procs : HardStop(g)
  \/ \E g \in Procs : HardStopRemove(g)
  \/ \E g \in Procs : HardStopClose(g)

SpecRst == InitRst /\ [][NextRst]_vars

\* The packet is a RST whose sequence lies outside of the receive window
OutsideRst(p) == "RST" \in p.flags /\ ~inReceiveWindow(h, p.seq)

\* C21 as stated: HandlePacket leaves the handler as it is when it is given a
\* RST outside of the receive window and does not pass it on to the processor;
\* and a step of the processor that takes up such a RST changes no field and
\* writes nothing.
C21_OutsideRstIgnored ==
  [][ /\ (pc["disp"] = << >> /\ pc'["disp"] # << >> /\ OutsideRst(loc'["disp"].pkt))
         => (h' = h /\ pc'["disp"] # << "enqueue" >>)
      /\ (Top("proc") = "processPackets" /\ fromTun # << >> /\ fromTun' = Tail(fromTun)
          /\ (\A g \in Procs \ {"proc"} : pc'[g] = pc[g])
          /\ OutsideRst(Head(fromTun)))
         => (h' = h /\ wire' = NoPkt) ]_vars

\* C22 as stated: every byte of the peer's stream below peerSequenceToAck was
\* handed to the manager, so peerSequenceToAck is not beyond a segment whose
\* sendToMgr failed.
C22_AckOnlyAfterHandOff ==
  \A sq \in U32(IRS + 1)..(h.peerSequenceToAck - 1) :
    \E i \in 1..Len(toMgrLog) :
      toMgrLog[i][1] <= sq /\ sq < toMgrLog[i][1] + toMgrLog[i][2]

\* C23 as stated: sequenceAcked never exceeds sequence, and it never goes
\* down, whatever ack numbers the peer sends and in whatever order.
C23_SequenceAckedHighest ==
  /\ [](h.sequenceAcked <= h.sequence)
  /\ [][h'.sequenceAcked >= h.sequenceAcked]_vars

\* C24 as stated: awaitWinSize is non-nil only while the sender is in
\* awaitWindowSize, waiting in its select or for the mutex it takes on wake-up;
\* once the sender has resumed it is nil.
C24_AwaitWinSizeWhileBlocked ==
  h.awaitWinSize # NoPkt => Top("reader") \in {"awaitWindowSize", "afterAwait"}

\* C25 as stated: peerWindow is never negative.
C25_PeerWindowNotNegative == h.peerWindow >= 0

\* C26 as stated: from the SYN+ACK on, while the connection lives, lastKnown
\* is not below peerSequenceAcked.
C26_LastKnownAtLeastAcked ==
  h.state \notin {stateListen, stateSynSent, stateClosed}
    => h.lastKnown >= h.peerSequenceAcked

\* C27 as stated: the step that writes the handler's FIN sets finalSeq to the
\* sequence number of that FIN plus one, and once a FIN has been sent no step
\* changes finalSeq.
C27_FinalSeqSetOnce ==
  [][ /\ (wire' # NoPkt /\ "FIN" \in wire'.flags /\ h.finalSeq = 0)
         => h'.finalSeq = U32(wire'.seq + 1)
      /\ (h.finalSeq # 0 /\ h.state \in {stateFinWait1, stateFinWait2, stateClosing,
                                         stateLastAck, stateTimeWait})
         => h'.finalSeq = h.finalSeq ]_vars

\* The steps of hardStop.  Its callers reach it without the mutex: HandlePacket
\* and tunWrite never took it, stopLocked and tunWriteUnlocked gave it back.
WithoutMutex == {"hardStop", "hardStopRemove", "hardStopClose"}

\* C28 as stated, for the writes: a step of a goroutine that does not hold
\* the mutex changes neither state nor remove.
C28_WritesUnderMutex ==
  [][ \A g \in Procs :
        (Top(g) \in WithoutMutex /\ pc'[g] # pc[g])
          => (h'.state = h.state /\ h'.remove = h.remove) ]_vars

\* ---------------------------------------------------------------------------
\* A peer whose sequence numbers pass the end of the sequence space: its
\* first data segment ends at the last number, the second starts at 0
\* ---------------------------------------------------------------------------
WrapIRS == SeqMod - SegLen - 1      \* the peer's initial sequence number here
WrapSegs == 3          \* the peer's stream, in segments of SegLen bytes
MaxWrapPackets == 5    \* packets of the peer, handshake included

\* The peer's packets: SYN, the ACK of the SYN+ACK, then the segments of its
\* stream in any order, or a RST at the place its stream has reached
PeerSendsWrap(e) ==
  LET e1 == [ e EXCEPT !.pkts = @ + 1 ] IN
  IF e.pkts = 0 THEN { << [ Syn EXCEPT !.seq = WrapIRS ], [ e1 EXCEPT !.pnxt = U32(WrapIRS + 1) ] >> }
  ELSE IF e.pkts = 1 THEN { << InPkt(U32(WrapIRS + 1), U32(ISS + 1), {"ACK"}, 0, PeerWin), e1 >> }
  ELSE IF e.pkts >= MaxWrapPackets THEN {}
  ELSE { << InPkt(U32(WrapIRS + 1 + i * SegLen), U32(ISS + 1), {"ACK"}, SegLen, PeerWin),
            [ e1 EXCEPT !.pnxt = IF @ = U32(WrapIRS + 1 + i * SegLen) THEN U32(@ + SegLen) ELSE @ ] >> :
         i \in 0..(WrapSegs - 1) }
       \cup { << InPkt(e.pnxt, 0, {"RST"}, 0, 0), [ e1 EXCEPT !.rst = TRUE ] >> }

DispatchWrap == \E pe \in PeerSendsWrap(env) : HandlePacket(pe[1], pe[2])

InitWrap ==
  /\ Init0
  /\ env = [ Env0 EXCEPT !.mayCancel = FALSE, !.mayFail = FALSE, !.streamMayFail = FALSE ]

NextWrap ==
  \/ Start
  \/ DispatchWrap
  \/ Enqueue
  \/ ProcessPackets
  \/ Resume
  \/ WriteToMgr
  \/ \E g \in Procs : HardStop(g)
  \/ \E g \in Procs : HardStopRemove(g)
  \/ \E g \in Procs : HardStopClose(g)

SpecWrap == InitWrap /\ [][NextWrap]_vars

\* How far the packet lies ahead of peerSequenceAcked, modulo the sequence space
AheadBy(p) == U32(p.seq - h.peerSequenceAcked)

\* C29 as stated, by what the handler does with the classification: a RST
\* that lies less than the receive window ahead of peerSequenceAcked is in the
\* window, so HandlePacket goes to hardStop; and a data segment that lies ahead
\* of peerSequenceAcked by less than the window is a future segment, so the
\* processor, with SACK permitted, queues it out of order and writes an ACK for
\* peerSequenceToAck.  Both as they are where nothing wraps.
C29_WrapSafe ==
  [][ /\ (pc["disp"] = << >> /\ pc'["disp"] # << >> /\ "RST" \in loc'["disp"].pkt.flags
          /\ AheadBy(loc'["disp"].pkt) < receiveWindow(h))
         => pc'["disp"] = << "hardStop" >>
      /\ (Top("proc") = "processPackets" /\ fromTun # << >> /\ fromTun' = Tail(fromTun)
          /\ (\A g \in Procs \ {"proc"} : pc'[g] = pc[g])
          /\ h.state \notin {stateClosed, stateTimeWait, stateListen}
          /\ h.peerPermitsSACK
          /\ "ACK" \in Head(fromTun).flags /\ Head(fromTun).len > 0
          /\ AheadBy(Head(fromTun)) > 0
          /\ AheadBy(Head(fromTun)) < receiveWindow(h))
         => (/\ \E i \in 1..Len(h'.oooQueue) : h'.oooQueue[i].sequence = Head(fromTun).seq
             /\ wire' # NoPkt
             /\ wire'.ack = h.peerSequenceToAck) ]_vars

\* ---------------------------------------------------------------------------
\* The sender's wait for the peer's window, to its end: the peer opens its
\* window or keeps it shut, may close its side and go on sending
\* ---------------------------------------------------------------------------
MaxLiveWinPackets == 4   \* packets of the peer, handshake included

\* The peer's packets: a SYN with a small MSS and no window scale option, ACKs
\* of everything sent so far with window 0 or one segment, its FIN, and a data
\* segment behind its FIN
PeerSendsLiveWin(e) ==
  LET e1 == [ e EXCEPT !.pkts = @ + 1 ] IN
  IF e.pkts = 0 THEN { << [ SynOf(WinMSS) EXCEPT !.ws = 0 ], e1 >> }
  ELSE IF e.pkts >= MaxLiveWinPackets THEN {}
  ELSE IF e.pfin
       THEN { << InPkt(U32(IRS + 2), h.sequence, {"ACK"}, SegLen, 0), e1 >> }
       ELSE { << InPkt(U32(IRS + 1), h.sequence, {"ACK"}, 0, w), e1 >> : w \in {0, WinMSS} }
            \cup { << InPkt(U32(IRS + 1), h.sequence, {"FIN", "ACK"}, 0, 0),
                      [ e1 EXCEPT !.pfin = TRUE ] >> }

DispatchLiveWin == \E pe \in PeerSendsLiveWin(env) : HandlePacket(pe[1], pe[2])

InitLiveWin ==
  /\ Init0
  /\ env = [ Env0 EXCEPT !.mayCancel = FALSE, !.mayFail = FALSE, !.streamMayFail = FALSE ]

NextLiveWin ==
  \/ Start
  \/ DispatchLiveWin
  \/ Enqueue
  \/ ProcessPackets
  \/ Resume
  \/ ReadFromMgr
  \/ ProcessPayload
  \/ AwaitWindowSize
  \/ AfterAwait

\* The Go scheduler runs every runnable goroutine and the timer of
\* awaitWindowSize fires.  Nothing is assumed of the peer.
FairnessWin ==
  /\ WF_vars(Enqueue) /\ WF_vars(ProcessPackets) /\ WF_vars(Resume)
  /\ WF_vars(ProcessPayload) /\ WF_vars(AwaitWindowSize) /\ WF_vars(AfterAwait)

LiveWinSpec == InitLiveWin /\ [][NextLiveWin]_vars /\ FairnessWin

\* C30 as stated: a sender that is in awaitWindowSize leaves it in the end.
C30_SenderResumes ==
  (Top("reader") \in {"awaitWindowSize", "afterAwait"})
    ~> (Top("reader") \notin {"awaitWindowSize", "afterAwait"})

----------------------------------------------------------------------------
(* A first packet that is not a SYN *)

\* listen has rejected a packet and its call of stopLocked is still to come
ListenRejected == \E i \in DOMAIN pc["proc"] : pc["proc"][i] = "stopLocked"

\* C31 as stated: when the first packet that the processor takes up in LISTEN
\* is not a SYN, a RST is written to the peer, the manager stream is never
\* opened, and the handler ends CLOSED with remove invoked exactly once.
C31_NonSynRejected ==
  /\ [][(/\ h.state = stateListen
         /\ Top("proc") = "processPackets"
         /\ fromTun # << >>
         /\ "SYN" \notin Head(fromTun).flags
         /\ fromTun' = Tail(fromTun)
         /\ pc'["proc"] # pc["proc"]
         /\ \A g \in Procs \ {"proc"} : pc'[g] = pc[g])
        => ("RST" \in wire'.flags /\ ListenRejected')]_vars
  /\ [](ListenRejected => [](h.stream = "nil"))
  /\ ListenRejected ~> (h.state = stateClosed /\ removeCount = 1)

----------------------------------------------------------------------------
(* Outbound data to a peer whose SYN may lack the MSS option *)

MaxMssPackets == 3  \* how many packets the peer sends in this scenario

\* The peer's packets: a SYN with or without the MSS option (mss 0 is the SYN
\* that has none), then ACKs of everything sent so far with any window field
PeerSendsMss(e) ==
  LET e1 == [ e EXCEPT !.pkts = @ + 1 ] IN
  IF e.pkts = 0 THEN { << [ SynOf(m) EXCEPT !.ws = 0 ], e1 >> : m \in {0, WinMSS} }
  ELSE IF e.pkts >= MaxMssPackets THEN {}
  ELSE { << InPkt(U32(IRS + 1), h.sequence, {"ACK"}, 0, w), e1 >> : w \in 0..MaxWinField }

DispatchMss == \E pe \in PeerSendsMss(env) : HandlePacket(pe[1], pe[2])

NextMss ==
  \/ Start
  \/ DispatchMss
  \/ Enqueue
  \/ ProcessPackets
  \/ Resume
  \/ ReadFromMgr
  \/ ProcessPayload
  \/ AwaitWindowSize
  \/ AfterAwait

SpecMss == InitWin /\ [][NextMss]_vars

\* a turn of processPayload's loop that ends with a segment written to the TUN
PayloadTurn ==
  /\ Top("reader") \in {"processPayload", "afterAwait"}
  /\ \A g \in Procs \ {"reader"} : pc'[g] = pc[g]
  /\ fromTun' = fromTun
  /\ env' = env
  /\ wire' # NoPkt

\* C32 as stated: every turn of processPayload's loop that does not stop
\* consumes at least one byte of the data, whatever the peer's SYN negotiated,
\* so that the loop ends.
C32_PayloadTurnConsumes ==
  [][PayloadTurn => loc'["reader"].start > loc["reader"].start]_vars

----------------------------------------------------------------------------
(* Stale entries of the out-of-order queue *)

\* C35 as stated: no entry of the OOO queue has a sequence below
\* peerSequenceToAck, no SACK block of a written segment begins below the ack
\* number of that segment, and no entry that continues at peerSequenceToAck
\* waits behind an entry below it; also when an in-order segment overlaps
\* queued segments.
C35_NoStaleOooEntry ==
  LET q == h.oooQueue IN
  /\ \A i \in 1..Len(q) : q[i].sequence >= h.peerSequenceToAck
  /\ wire # NoPkt => \A i \in 1..Len(wire.sack) : wire.sack[i][1] >= wire.ack
  /\ \A i \in 1..Len(q) :
       q[i].sequence = h.peerSequenceToAck => \A j \in 1..(i - 1) : q[j].sequence >= q[i].sequence

----------------------------------------------------------------------------
(* Giving up on a record: the handshake with SACK, two payloads from the
   manager, a selective ACK, and the clock *)

MaxGiveUpPackets == 3  \* packets of the peer, handshake included
MaxGiveUpSends == 2    \* how many payloads the manager sends in this scenario

\* The peer's packets: a SYN that permits SACK, the ACK of the SYN+ACK, then,
\* when four segments have been sent, an ACK of nothing new that reports the
\* last of them
PeerSendsGiveUp(e) ==
  LET e1 == [ e EXCEPT !.pkts = @ + 1 ] IN
  IF e.pkts = 0 THEN { << SynOf(SackMSS), e1 >> }
  ELSE IF e.pkts = 1 THEN { << InPkt(U32(IRS + 1), U32(ISS + 1), {"ACK"}, 0, PeerWin), e1 >> }
  ELSE IF e.pkts >= MaxGiveUpPackets \/ h.sequence # U32(ISS + 1 + DataLen) THEN {}
  ELSE { << [ InPkt(U32(IRS + 1), U32(ISS + 1), {"ACK"}, 0, PeerWin)
                EXCEPT !.sack = << << U32(h.sequence - SackMSS), h.sequence >> >> ], e1 >> }

DispatchGiveUp == \E pe \in PeerSendsGiveUp(env) : HandlePacket(pe[1], pe[2])

\* the manager's payloads: DataLen bytes, then a single segment
ReadFromMgrTwice ==
  /\ Top("reader") = "readFromMgrLoop"
  /\ env.sends < MaxGiveUpSends
  /\ env' = [ env EXCEPT !.sends = @ + 1 ]
  /\ loc' = [ loc EXCEPT !["reader"] =
                [ NoLoc EXCEPT !.n = IF env.sends = 0 THEN DataLen ELSE SackMSS ] ]
  /\ pc' = [ pc EXCEPT !["reader"] = << "processPayload" >> \o @ ]
  /\ wire' = NoPkt
  /\ UNCHANGED << h, mu, cancelled, fromTun, removeCount, toMgrLog, now >>

\* The ticker of processResends, 100 ms apart, fires when the sender is not in
\* the middle of a payload
ProcessResendsIdle == Top("reader") # "processPayload" /\ ProcessResends

NextGiveUp ==
  \/ Start
  \/ DispatchGiveUp
  \/ Enqueue
  \/ ProcessPackets
  \/ Resume
  \/ ReadFromMgrTwice
  \/ ProcessPayload
  \/ ProcessResendsIdle
  \/ ResendScan
  \/ ResendNext

SpecGiveUp == InitResend /\ [][NextGiveUp]_vars

\* C33 as stated: a record leaves the ack-wait queue only when the peer has
\* acknowledged it or when the retransmit scan gives up on it, its retries
\* exhausted; every other record is still in the queue after the step, also
\* the records pushed at the head during a TUN write of the scan.
C33_OnlyExhaustedLeaves ==
  [][ \A i \in 1..Len(h.ackWaitQueue) :
        ~InQueue(h'.ackWaitQueue, h.ackWaitQueue[i].sequence)
        => \/ h.ackWaitQueue[i].sequence <= h'.sequenceAcked
           \/ /\ Top("resend") \in {"scan", "resend"}
              /\ h.ackWaitQueue[i].retries >= maxResends ]_vars

----------------------------------------------------------------------------
(* Stop while the sender is inside processPayload or waits for window *)

MaxFinPackets == 3  \* packets of the peer, handshake included

\* The peer's packets: a SYN with a small MSS and no window scale option, then
\* ACKs of everything sent so far, with a window field of 0 or of a segment
PeerSendsFin(e) ==
  LET e1 == [ e EXCEPT !.pkts = @ + 1 ] IN
  IF e.pkts = 0 THEN { << [ SynOf(WinMSS) EXCEPT !.ws = 0 ], e1 >> }
  ELSE IF e.pkts >= MaxFinPackets THEN {}
  ELSE { << InPkt(U32(IRS + 1), h.sequence, {"ACK"}, 0, w), e1 >> : w \in {0, WinMSS} }

DispatchFin == \E pe \in PeerSendsFin(env) : HandlePacket(pe[1], pe[2])

NextFin ==
  \/ Start
  \/ DispatchFin
  \/ Enqueue
  \/ ProcessPackets
  \/ Resume
  \/ ReadFromMgr
  \/ ProcessPayload
  \/ AwaitWindowSize
  \/ AfterAwait
  \/ PoolStop
  \/ \E g \in Procs : Stop(g)
  \/ \E g \in Procs : HardStop(g)
  \/ \E g \in Procs : HardStopRemove(g)
  \/ \E g \in Procs : HardStopClose(g)

SpecFin == InitWin /\ [][NextFin]_vars

\* C34 as stated: once the FIN is sent (FIN-WAIT-1, FIN-WAIT-2, CLOSING or
\* LAST-ACK), no segment with payload is written whose sequence number is at
\* or beyond that of the FIN, which is finalSeq - 1.
C34_NoPayloadBeyondFin ==
  (/\ h.state \in {stateFinWait1, stateFinWait2, stateClosing, stateLastAck}
   /\ wire # NoPkt
   /\ wire.len > 0)
  => wire.seq < h.finalSeq - 1

====
